---- MODULE Spec2Model ----
(***************************************************************************)
(* The three canvas animations of the repository as one state machine:     *)
(*   WaveCanvas      src/src/components/WaveCanvas.tsx                     *)
(*   ShoalingCanvas  src/src/components/ShoalingCanvas.tsx                 *)
(*   TyphoonCanvas   src/src/components/Typhoon/TyphoonCanvas.tsx          *)
(*                                                                         *)
(* One behaviour follows one component instance (variable canvas) through  *)
(* effect setup, animation frames, input events, option changes and effect *)
(* cleanup.                                                                *)
(*                                                                         *)
(* Numbers.  The code computes in IEEE doubles; the model computes in      *)
(* integers (TLC's integers are 32 bit wide, every intermediate value      *)
(* below stays under 2^31):                                                *)
(*   lengths, positions, velocities, amplitude   1/1000 px                 *)
(*   speed option, alpha, sin/cos/exp values     1/1000                    *)
(*   ripple strength, wave phase, shoaling time  1/1000000                 *)
(*   angles                                      1/1000 rad                *)
(*   performance.now()                           ms                        *)
(*   canvas client size, pointer and touch coordinates   px                *)
(***************************************************************************)
EXTENDS Integers, Sequences, FiniteSets, TLC

----------------------------------------------------------------------------
(* Math helpers                                                             *)

Max(a, b) == IF a >= b THEN a ELSE b

Min(a, b) == IF a <= b THEN a ELSE b

Abs(a) == IF a < 0 THEN -a ELSE a

\* Math.floor(a / b) for b > 0 (TLC's \div floors)
FloorDiv(a, b) == a \div b

\* Math.round(a / b) for b > 0: floor(a/b + 0.5)
RoundDiv(a, b) == (2 * a + b) \div (2 * b)

\* the JavaScript remainder a % b: the sign of the result is the sign of a
JsRem(a, b) == IF a >= 0 THEN a % Abs(b) ELSE -((-a) % Abs(b))

\* pi and 2*pi in 1/1000 rad
PiMilli == 3142

TwoPiMilli == 6283

\* sine of an angle in [0, pi] (1/1000 rad), result in 1/1000:
\* Bhaskara's rational approximation of Math.sin, absolute error < 0.002
SinHalf(a) ==
    LET p == a * (PiMilli - a)
    IN  Min(1000, (16 * p) \div ((5 * PiMilli * PiMilli - 4 * p) \div 1000))

\* Math.sin of an angle in 1/1000 rad (any sign), result in 1/1000
Sin(a) ==
    LET r == a % TwoPiMilli
    IN  IF r <= PiMilli THEN SinHalf(r) ELSE -SinHalf(Min(PiMilli, r - PiMilli))

\* Math.cos
Cos(a) == Sin(a + PiMilli \div 2)

\* exp(-u) for 0 <= u < 1/2 (u and the result in 1/1000000): Taylor, 4 terms
ExpNegSmall(u) ==
    LET u2 == (u \div 1000) * (u \div 1000)
        u3 == (u2 \div 1000) * (u \div 1000)
    IN  1000000 - u + u2 \div 2 - u3 \div 6

\* x squared, x in 1/1000000 and at most 1000000
SqMicro(x) == (x \div 1000) * (x \div 1000)

\* Math.exp(-u) for u >= 0 in 1/1000, result in 1/1000:
\* exp(-u) = exp(-u/16)^16, and 0 from u = 7 on (exp(-7) < 0.001)
ExpNeg(u) ==
    IF u >= 7000 THEN 0
    ELSE LET e1  == ExpNegSmall((u * 1000) \div 16)
             e2  == SqMicro(e1)
             e4  == SqMicro(e2)
             e8  == SqMicro(e4)
             e16 == SqMicro(e8)
         IN  e16 \div 1000

\* floor(Math.sqrt(n)) by Newton's iteration from the guess g
RECURSIVE SqrtFrom(_, _)
SqrtFrom(n, g) ==
    LET g2 == (g + n \div g) \div 2
    IN  IF g2 >= g THEN g ELSE SqrtFrom(n, g2)

ISqrt(n) == IF n <= 0 THEN 0 ELSE SqrtFrom(n, n)

----------------------------------------------------------------------------
(* Bounds of the model                                                      *)

\* effect setups (mount, or re-run after a dependency change) per behaviour
MaxSetups == 2

\* animation frames per behaviour of the general specification
MaxFrames == 2

\* input events and option changes per behaviour of the general specification
MaxEvents == 1

\* seeds of the random source: 0 .. MaxSeed
MaxSeed == 0

\* performance.now() when the component is created (ms)
PageAge == 250

----------------------------------------------------------------------------
(* State                                                                    *)

VARIABLES
    canvas,        \* the component this instance is: "wave", "shoal", "typhoon"
    now,           \* performance.now(), ms
    frameMs,       \* ms between two animation frames (the display's refresh)
    dpr,           \* window.devicePixelRatio
    clientW,       \* canvas.clientWidth, px
    clientH,       \* canvas.clientHeight, px
    surface,       \* [w, h]: canvas.width and canvas.height (backing store)
    props,         \* the options of the last render
    ampRef,        \* ampRef.current
    speedRef,      \* speedRef.current
    wlRef,         \* wlRef.current (WaveCanvas)
    phaseRef,      \* phaseRef.current (WaveCanvas)
    timeRef,       \* timeRef.current (ShoalingCanvas)
    pointerRef,    \* pointerRef.current: [x, y, inside]
    ripplesRef,    \* ripplesRef.current: sequence of ripples
    particlesRef,  \* particlesRef.current: sequence of particles
    lastY,         \* closure variable lastY of the live effect run
    run,           \* number of effect setups so far; the latest closure's id
    live,          \* the effect is set up (between setup and its cleanup)
    mounted,       \* closures whose variable mounted is true
    rafRef,        \* rafRef.current: a frame request id, 0 for null
    rafQueue,      \* the browser's pending frame requests: [id, run, at]
    nextRaf,       \* the id the next requestAnimationFrame returns
    listeners,     \* registered listeners and observers: [target, type, run]
    rng,           \* state of the random source behind Math.random()
    startTimeRef,  \* startTimeRef.current (TyphoonCanvas)
    centersRef,    \* centersRef.current: the trail (TyphoonCanvas)
    lastTrailSample, \* closure variable lastTrailSample (TyphoonCanvas)
    cyc,           \* spinRef, travelRef, windRef, pathAmpRef, bandsRef
    obs,           \* what the last pass did (observation, see Obs0)
    passes,        \* passes[k]: draw/loop passes run by closure k (observation)
    events,        \* input events and option changes so far
    injected,      \* ripples injected so far; the next ripple's id
    gesture,       \* the touch in progress: "idle", "tap", "drag" (observation)
    current,       \* QuizPage: index of the question shown, from 0
    answers,       \* QuizPage: answers[i], the option picked for question i
    submitted,     \* QuizPage: the quiz has been submitted
    quizInput,     \* QuizPage: the last user input (observation)
    hooks,         \* useImageLoader: [src, status, img] of each hook
    loadingMap,    \* ImageLoader.loadingMap: the tasks in flight
    cacheMap,      \* ImageLoader.cacheMap: the srcs with a cached image
    calls          \* the calls of load so far, with their callbacks (observation)

vars == <<canvas, now, frameMs, dpr, clientW, clientH, surface, props, ampRef,
          speedRef, wlRef, phaseRef, timeRef, pointerRef, ripplesRef,
          particlesRef, lastY, run, live, mounted, rafRef, rafQueue, nextRaf,
          listeners, rng, startTimeRef, centersRef, lastTrailSample, cyc, obs,
          passes, events, injected, gesture, current, answers, submitted,
          quizInput, hooks, loadingMap, cacheMap, calls>>

\* the state of the canvases
canvasVars == <<canvas, now, frameMs, dpr, clientW, clientH, surface, props,
                ampRef, speedRef, wlRef, phaseRef, timeRef, pointerRef,
                ripplesRef, particlesRef, lastY, run, live, mounted, rafRef,
                rafQueue, nextRaf, listeners, rng, startTimeRef, centersRef,
                lastTrailSample, cyc, obs, passes, events, injected,
                gesture>>

\* the state of the pages around the canvases: the quiz and the image loader
pageVars == <<current, answers, submitted, quizInput, hooks, loadingMap,
              cacheMap, calls>>

\* the observation of a pass: the amplitude it read, the particles it spawned,
\* the front path it sampled, the client size it saw, the closure that ran it
Obs0 == [usedAmp |-> 0, spawned |-> 0, pts |-> <<>>, w |-> 0, h |-> 0,
         by |-> 0, center |-> [x |-> 0, y |-> 0, at |-> 0], pushed |-> FALSE,
         fade |-> <<>>, steady |-> 0,
         cyclone |-> [bandCount |-> 0, a |-> 0, baseAlpha |-> 0, lineBase |-> 0,
                      lightness |-> 0, eyeR |-> 0, eyewallAlpha |-> 0]]

\* the ticks in a row before this one that read the width w this one reads
SteadyTicks(o, w) == IF o.by # 0 /\ o.w = w THEN o.steady + 1 ELSE 0

\* passes with one more pass of closure k
Passed(ps, k) ==
    [i \in (DOMAIN ps) \cup {k} |->
        IF i = k THEN (IF k \in DOMAIN ps THEN ps[k] ELSE 0) + 1 ELSE ps[i]]

\* frames run so far
FramesRun == (now - PageAge) \div frameMs

----------------------------------------------------------------------------
(* Math.random(): a seeded generator with 1024 values, r = rng / 1024       *)

NextRng(s) == (s * 165 + 421) % 1024

\* the state after n calls
RECURSIVE RngAfter(_, _)
RngAfter(s, n) == IF n = 0 THEN s ELSE RngAfter(NextRng(s), n - 1)

\* floor(Math.random() * range) for the value drawn from state s
Scale(s, range) == (NextRng(s) * range) \div 1024

----------------------------------------------------------------------------
(* Sequences                                                                *)

RECURSIVE SumTo(_, _)
SumTo(s, n) == IF n = 0 THEN 0 ELSE s[n] + SumTo(s, n - 1)

SumSeq(s) == SumTo(s, Len(s))

MapSeq(Op(_), s) == [i \in 1..Len(s) |-> Op(s[i])]

\* floor(s * d / 1000) without leaving 32 bits
MulMilli(s, d) == (s \div 1000) * d + ((s % 1000) * d) \div 1000

----------------------------------------------------------------------------
(* Ripples, shared shape (WaveCanvas.tsx 39-47, ShoalingCanvas.tsx 45-50):  *)
(* [x, strength, radius, decay] and, for the claims, id (injection number)  *)
(* and ticks (draw passes that sampled it).                                 *)

\* no decay at all: the strength stays what it was
Undecayed(s, decay) == s

\* r.strength *= r.decay
Decayed(s, decay) == MulMilli(s, decay)

\* Math.exp(-(dx * dx) / (2 * sigma * sigma)) with sigma = r.radius * 0.6,
\* dx in px, result in 1/1000
Envelope(r, dx) ==
    LET twoSigma2 == (r.radius * r.radius * 72) \div 100
    IN  IF dx * dx >= 7 * twoSigma2 THEN 0
        ELSE ExpNeg((dx * dx * 1000) \div twoSigma2)

\* the strength n calls of rippleOffset leave, each multiplying by decay until
\* the strength is below min (the call that then removes the ripple); the
\* n calls are split in halves to keep the evaluation shallow
RECURSIVE StrengthAfter(_, _, _, _)
StrengthAfter(s, decay, min, n) ==
    IF n = 0 THEN s
    ELSE IF n = 1 THEN (IF s < min THEN s ELSE Decayed(s, decay))
    ELSE LET m == StrengthAfter(s, decay, min, n \div 2)
         IN  IF m < min THEN m ELSE StrengthAfter(m, decay, min, n - n \div 2)

\* the ripples n calls of rippleOffset leave in the array
RipplesAfter(ripples, min, n) ==
    LET After(r) == [r EXCEPT !.strength = StrengthAfter(r.strength, r.decay, min, n)]
        Kept(r)  == ~(r.strength < min)
    IN  SelectSeq(MapSeq(After, ripples), Kept)

\* every ripple has been sampled in one more pass
Ticked(ripples) == [i \in 1..Len(ripples) |-> [ripples[i] EXCEPT !.ticks = @ + 1]]

----------------------------------------------------------------------------
(* WaveCanvas                                                               *)

\* strength below which rippleOffset removes a ripple: 0.3
WaveRippleMin == 300000

\* what one pass of draw reads: the client size, the refs, the clock
WaveCtx(phase, t) ==
    [w |-> clientW, h |-> clientH, amp |-> ampRef, wl |-> wlRef,
     speed |-> speedRef, phase |-> phase, t |-> t, pointer |-> pointerRef]

\* one ripple's term of rippleOffset(x, t); x in px, c.t in ms
WaveRippleDy(r, x, c) ==
    LET dx  == x - r.x
        w   == Max(120, (18 * c.speed) \div 100)
        arg == (dx * 22000) \div (r.radius * 6) - (w * c.t) \div 1000
    IN  ((((r.strength \div 1000) * Envelope(r, dx)) \div 1000) * Cos(arg)) \div 1000

\* rippleOffset(x, t): the displacement it returns and the ripples it leaves
WaveRippleOffset(ripples, x, c) ==
    LET Dy(r) == WaveRippleDy(r, x, c)
    IN  [dy      |-> SumSeq(MapSeq(Dy, ripples)),
         ripples |-> RipplesAfter(ripples, WaveRippleMin, 1)]

\* pointerHint(x) of drawWaveLayer
WavePointerHint(x, c) ==
    IF ~c.pointer.inside THEN 0
    ELSE LET dx == Abs(x - c.pointer.x)
         IN  IF dx > 90 THEN 0 ELSE 2500 - (2500 * dx) \div 90

\* a layer sampled every 4 px
WaveSamplesSparse(w) == w \div 4 + 1

\* samples of one layer: x = 0, 2, 4, ... <= w
WaveSamples(w) == w \div 2 + 1

\* layers drawn by one pass (layerCount)
WaveLayers == 5

\* the y of sample i (x = 2 * (i - 1)) of the pre-pass of drawWaveLayer(0, t);
\* ripples is the array when that layer starts
WaveFrontY(i, ripples, c) ==
    LET x     == 2 * (i - 1)
        wl    == Max(80, c.wl)
        shift == (c.phase \div 50) * 3
        ro    == WaveRippleOffset(RipplesAfter(ripples, WaveRippleMin, i - 1), x, c)
    IN  c.h * 500 + (Sin((x * 1000 + shift) \div wl) * c.amp) \div 1000
        + ro.dy + WavePointerHint(x, c)

\* the layers of one pass, back to front: the front path (its y values) and
\* the ripples left; the back layers' paths are drawn and dropped, their
\* rippleOffset calls are not
WaveLayersDrawn(ripples, c) ==
    LET n     == WaveSamples(c.w)
        front == RipplesAfter(ripples, WaveRippleMin, (WaveLayers - 1) * n)
    IN  [pts     |-> [i \in 1..n |-> WaveFrontY(i, front, c)],
         ripples |-> RipplesAfter(front, WaveRippleMin, n)]

\* the crest sampler drawWaveLayer returns; x in 1/1000 px
WaveCrestYAtX(pts, x) ==
    pts[Max(0, Min(Len(pts) - 1, RoundDiv(x, 2000))) + 1]

\* maxParticles of updateAndDrawParticles
WaveMaxParticles(w) == Max(40, Min(110, w \div 8))

\* the particle pushed by the spawn loop, its six Math.random() calls drawn
\* from state s on
WaveNewParticle(s, pts, c) ==
    LET x == Scale(s, c.w * 1000)
    IN  [x       |-> x,
         y       |-> WaveCrestYAtX(pts, x) - 4000 + Scale(RngAfter(s, 1), 6000) - 3000,
         vx      |-> 600 + Scale(RngAfter(s, 2), 600) + c.speed \div 5,
         vy      |-> -150 + Scale(RngAfter(s, 3), 300) - 150,
         life    |-> 0,
         maxLife |-> 60000 + Scale(RngAfter(s, 4), 60000),
         size    |-> 1200 + Scale(RngAfter(s, 5), 1600),
         alpha   |-> 800]

\* spawnCount of updateAndDrawParticles
WaveSpawnCount(n, max) == IF n < max THEN 4 ELSE 1

\* a spawn loop without the break
WaveSpawnRunsOut(i, spawnCount, n, max) == i >= spawnCount

\* the spawn loop ends: its counter has run out, or the break of line 160
WaveSpawnEnds(i, spawnCount, n, max) == i >= spawnCount \/ n >= max

\* the spawn loop from counter i on, s the random state
RECURSIVE WaveSpawn(_, _, _, _, _, _)
WaveSpawn(i, spawnCount, particles, s, pts, c) ==
    IF WaveSpawnEnds(i, spawnCount, Len(particles), WaveMaxParticles(c.w))
    THEN [particles |-> particles, rng |-> s]
    ELSE WaveSpawn(i + 1, spawnCount, Append(particles, WaveNewParticle(s, pts, c)),
                   RngAfter(s, 6), pts, c)

\* the pointer's push on a particle at (x, y) with velocity component v along
\* the axis whose offset is d1 (d2 is the other offset); offsets in 1/100 px
Repel(v, d1, d2, radius) ==
    IF Abs(d1) < radius /\ Abs(d2) < radius /\ d1 * d1 + d2 * d2 < radius * radius
    THEN LET d == Max(1, ISqrt(d1 * d1 + d2 * d2)) IN v + (d1 * 80) \div d
    ELSE v

\* a particle that keeps its first alpha
WaveUnfaded(life, maxLife) == 800

\* p.alpha = 0.8 * (1 - p.life / p.maxLife) (lines 201-202)
WaveFaded(life, maxLife) == 800 - (800 * life * 1000) \div maxLife

\* one iteration of the update loop of updateAndDrawParticles, up to the fade
WaveMoved(p, c) ==
    LET x  == p.x + p.vx
        y  == p.y + p.vy
        vy == p.vy + 3
        dx == (x - c.pointer.x * 1000) \div 10
        dy == (y - c.pointer.y * 1000) \div 10
        life == p.life + 1
    IN  [p EXCEPT !.life = life, !.x = x, !.y = y,
                  !.vx = IF c.pointer.inside THEN Repel(p.vx, dx, dy, 3800) ELSE p.vx,
                  !.vy = IF c.pointer.inside THEN Repel(vy, dy, dx, 3800) ELSE vy,
                  !.alpha = WaveFaded(life, p.maxLife)]

\* the particle stays in the array (the splice is not taken)
WaveKept(p, c) ==
    ~(p.life * 1000 >= p.maxLife \/ p.x > (c.w + 5) * 1000 \/ p.y > (c.h + 5) * 1000)

\* what iteration i of an update loop does to its particle: the alpha it
\* had, the particle after the update, and whether it is drawn or spliced
Faded(before, after, kept) ==
    [was |-> before.alpha, life |-> after.life, maxLife |-> after.maxLife,
     alpha |-> after.alpha, x |-> after.x, y |-> after.y, drawn |-> kept]

\* updateAndDrawParticles(t, crestYAtX)
WaveUpdateAndDrawParticles(particles, s, pts, c) ==
    LET max     == WaveMaxParticles(c.w)
        sp      == WaveSpawn(0, WaveSpawnCount(Len(particles), max), particles, s, pts, c)
        Move(p) == WaveMoved(p, c)
        Keep(p) == WaveKept(p, c)
    IN  [particles |-> SelectSeq(MapSeq(Move, sp.particles), Keep),
         rng       |-> sp.rng,
         spawned   |-> Len(sp.particles) - Len(particles),
         fade      |-> [i \in 1..Len(sp.particles) |->
                           Faded(sp.particles[i], Move(sp.particles[i]),
                                 Keep(Move(sp.particles[i])))]]

\* the listeners the effect registers (lines 378, 425-430), k the closure
WaveListeners(k) ==
    {[target |-> "window", type |-> "resize", run |-> k]} \cup
    {[target |-> "canvas", type |-> ty, run |-> k] :
        ty \in {"touchstart", "touchmove", "touchend", "mousemove", "mouseleave", "click"}}

\* a listener of this type is registered, so the event reaches a handler
Hears(target, type) == \E l \in listeners : l.target = target /\ l.type = type

\* resize(): canvas.width and canvas.height from the client size and the ratio
Resized == [w |-> (clientW * dpr) \div 1000, h |-> (clientH * dpr) \div 1000]

\* a pass that does not ask for the next frame
NotRequested(pending, id, k) == pending

\* requestAnimationFrame(draw) by the closure of setup k, answered with id
Requested(pending, id, k) == pending \cup {[id |-> id, run |-> k]}

\* a cancelAnimationFrame that leaves the request pending
Uncancelled(queue, id) == queue

\* cancelAnimationFrame(id)
Cancelled(queue, id) == {f \in queue : f.id # id}

\* a cleanup that forgets the window's resize listener
RemovedButResize(registered, released) ==
    registered \ {l \in released : l.type # "resize"}

\* the removeEventListener calls (or ro.disconnect()) of a cleanup
Removed(registered, released) == registered \ released

\* draw() of closure k at time t with mounted true; pending is the browser's
\* queue without the request that is being served
WaveDraw(k, pending, t) ==
    LET phase == phaseRef + 20 * speedRef
        c     == WaveCtx(phase, t)
        front == WaveLayersDrawn(Ticked(ripplesRef), c)
        up    == WaveUpdateAndDrawParticles(particlesRef, rng, front.pts, c)
    IN  /\ phaseRef' = phase
        /\ ripplesRef' = front.ripples
        /\ particlesRef' = up.particles
        /\ rng' = up.rng
        /\ rafRef' = nextRaf
        /\ nextRaf' = nextRaf + 1
        /\ rafQueue' = Requested(pending, nextRaf, k)
        /\ passes' = Passed(passes, k)
        /\ obs' = [Obs0 EXCEPT !.usedAmp = c.amp, !.spawned = up.spawned,
                               !.pts = front.pts, !.w = c.w, !.h = c.h, !.by = k,
                               !.fade = up.fade,
                               !.steady = SteadyTicks(obs, c.w)]

\* the variables of the other two components
shoalVars == <<timeRef>>

typhoonVars == <<startTimeRef, centersRef, lastTrailSample, cyc>>

\* the effect of lines 94-443 runs: resize(), draw(), the listeners
WaveSetup(maxSetups) ==
    /\ canvas = "wave" /\ ~live /\ run < maxSetups
    /\ UNCHANGED pageVars /\ UNCHANGED gesture
    /\ run' = run + 1
    /\ live' = TRUE
    /\ mounted' = mounted \cup {run + 1}
    /\ surface' = Resized
    /\ WaveDraw(run + 1, rafQueue, now)
    /\ listeners' = listeners \cup WaveListeners(run + 1)
    /\ lastY' = 0
    /\ UNCHANGED <<canvas, now, frameMs, dpr, clientW, clientH, props, ampRef,
                   speedRef, wlRef, pointerRef, events, injected>>
    /\ UNCHANGED shoalVars /\ UNCHANGED typhoonVars

\* the cleanup the effect returns (lines 432-442)
WaveCleanup ==
    /\ canvas = "wave" /\ live
    /\ UNCHANGED pageVars /\ UNCHANGED gesture
    /\ live' = FALSE
    /\ mounted' = mounted \ {run}
    /\ listeners' = Removed(listeners, WaveListeners(run))
    /\ rafQueue' = IF rafRef # 0 THEN Cancelled(rafQueue, rafRef) ELSE rafQueue
    /\ UNCHANGED <<canvas, now, frameMs, dpr, clientW, clientH, surface, props,
                   ampRef, speedRef, wlRef, phaseRef, pointerRef, ripplesRef,
                   particlesRef, lastY, run, rafRef, nextRaf, rng, obs, passes,
                   events, injected>>
    /\ UNCHANGED shoalVars /\ UNCHANGED typhoonVars

\* the browser serves a pending frame request: draw() of the closure that
\* asked for it
WaveFrame(maxFrames) ==
    /\ canvas = "wave" /\ FramesRun < maxFrames
    /\ UNCHANGED pageVars /\ UNCHANGED gesture
    /\ \E f \in rafQueue :
        /\ now' = now + frameMs
        /\ IF f.run \in mounted
           THEN WaveDraw(f.run, rafQueue \ {f}, now + frameMs)
           ELSE /\ rafQueue' = rafQueue \ {f}
                /\ UNCHANGED <<phaseRef, ripplesRef, particlesRef, rng, rafRef,
                               nextRaf, passes, obs>>
    /\ UNCHANGED <<canvas, frameMs, dpr, clientW, clientH, surface, props, ampRef,
                   speedRef, wlRef, pointerRef, lastY, run, live, mounted,
                   listeners, events, injected>>
    /\ UNCHANGED shoalVars /\ UNCHANGED typhoonVars

----------------------------------------------------------------------------
(* Inputs: the values events and option changes are drawn from              *)

\* clientY of a touch, px
TouchYs == {0, 100, 700}

\* pointer positions relative to the canvas, px
Points == {[x |-> 10, y |-> 130], [x |-> 60, y |-> 125]}

\* clientX - rect.left of a click or tap, px
RippleXs == {0, 50}

\* amplitude options (1/1000 px): in range, above the range, below it
Amplitudes == {40000, 200000, 2000}

\* speed options (1/1000)
Speeds == {1000, 500}

\* wavelength options (px)
Wavelengths == {280, 200}

\* client sizes of the canvas, px
Sizes == {[w |-> 100, h |-> 260], [w |-> 0, h |-> 260], [w |-> 100, h |-> 0]}

\* what no input event of a wave canvas writes
eventFrame == <<canvas, frameMs, dpr, now, run, live, mounted, rafRef, rafQueue,
                nextRaf, listeners, phaseRef, timeRef, particlesRef, rng, obs,
                passes, startTimeRef, centersRef, lastTrailSample, cyc>>

\* one more input event or option change, within the budget
Event(maxEvents) == events < maxEvents /\ events' = events + 1

----------------------------------------------------------------------------
(* WaveCanvas: option changes and input events                              *)

\* a render with changed amplitude, speed or wavelength: the effect of lines
\* 88-92 copies all three options into the refs
WaveSetProps(maxEvents) ==
    /\ canvas = "wave" /\ live /\ Event(maxEvents)
    /\ UNCHANGED pageVars /\ UNCHANGED gesture
    /\ \E a \in Amplitudes, sp \in Speeds, wl \in Wavelengths :
        /\ [amplitude |-> a, speed |-> sp, wavelength |-> wl] # props
        /\ \/ (sp = props.speed /\ wl = props.wavelength)
           \/ (a = props.amplitude /\ wl = props.wavelength)
           \/ (a = props.amplitude /\ sp = props.speed)
        /\ props' = [amplitude |-> a, speed |-> sp, wavelength |-> wl]
        /\ ampRef' = a
        /\ speedRef' = sp
        /\ wlRef' = wl
    /\ UNCHANGED eventFrame
    /\ UNCHANGED <<clientW, clientH, surface, pointerRef, ripplesRef, lastY, injected>>

\* onTouchStart (lines 382-384)
WaveTouchStart(maxEvents) ==
    /\ canvas = "wave" /\ Hears("canvas", "touchstart") /\ Event(maxEvents)
    /\ UNCHANGED pageVars
    /\ \E y \in TouchYs : lastY' = y
    /\ gesture' = "tap"
    /\ UNCHANGED eventFrame
    /\ UNCHANGED <<clientW, clientH, surface, props, ampRef, speedRef, wlRef,
                   pointerRef, ripplesRef, injected>>

\* the touch after a touchmove: a touch that changes the amplitude is a drag
Moved(g, amp, dragged) == IF g # "idle" /\ dragged # amp THEN "drag" ELSE g

\* a drag without the clamp
WaveDraggedFreely(amp, dy) == amp + dy * 200

\* the amplitude onTouchMove leaves for the drag delta dy (line 389)
WaveDragged(amp, dy) == Max(5000, Min(120000, amp + dy * 200))

\* onTouchMove (lines 385-390)
WaveTouchMove(maxEvents) ==
    /\ canvas = "wave" /\ Hears("canvas", "touchmove") /\ Event(maxEvents)
    /\ UNCHANGED pageVars
    /\ \E y \in TouchYs :
        /\ lastY' = y
        /\ ampRef' = WaveDragged(ampRef, lastY - y)
        /\ gesture' = Moved(gesture, ampRef, WaveDragged(ampRef, lastY - y))
    /\ UNCHANGED eventFrame
    /\ UNCHANGED <<clientW, clientH, surface, props, speedRef, wlRef, pointerRef,
                   ripplesRef, injected>>

\* a push that drops the ripples that were there
WaveSpawnRippleAlone(ripples, px, id) ==
    <<[x |-> px, strength |-> 18000000, radius |-> 120,
       decay |-> 985, id |-> id, ticks |-> 0]>>

\* spawnRippleAt(px) (lines 402-409)
WaveSpawnRippleAt(ripples, px, id) ==
    Append(ripples, [x |-> px, strength |-> 18000000, radius |-> 120,
                     decay |-> 985, id |-> id, ticks |-> 0])

\* onClick (lines 410-414)
WaveClick(maxEvents) ==
    /\ canvas = "wave" /\ Hears("canvas", "click") /\ Event(maxEvents)
    /\ UNCHANGED pageVars /\ UNCHANGED gesture
    /\ \E px \in RippleXs : ripplesRef' = WaveSpawnRippleAt(ripplesRef, px, injected + 1)
    /\ injected' = injected + 1
    /\ UNCHANGED eventFrame
    /\ UNCHANGED <<clientW, clientH, surface, props, ampRef, speedRef, wlRef,
                   pointerRef, lastY>>

\* onTouchEnd (lines 417-423)
WaveTouchEnd(maxEvents) ==
    /\ canvas = "wave" /\ Hears("canvas", "touchend") /\ Event(maxEvents)
    /\ UNCHANGED pageVars
    /\ \E px \in RippleXs : ripplesRef' = WaveSpawnRippleAt(ripplesRef, px, injected + 1)
    /\ injected' = injected + 1
    /\ gesture' = "idle"
    /\ UNCHANGED eventFrame
    /\ UNCHANGED <<clientW, clientH, surface, props, ampRef, speedRef, wlRef,
                   pointerRef, lastY>>

\* onMouseMove (lines 393-398)
WaveMouseMove(maxEvents) ==
    /\ canvas = "wave" /\ Hears("canvas", "mousemove") /\ Event(maxEvents)
    /\ UNCHANGED pageVars /\ UNCHANGED gesture
    /\ \E p \in Points : pointerRef' = [x |-> p.x, y |-> p.y, inside |-> TRUE]
    /\ UNCHANGED eventFrame
    /\ UNCHANGED <<clientW, clientH, surface, props, ampRef, speedRef, wlRef,
                   ripplesRef, lastY, injected>>

\* onMouseLeave (lines 399-401)
WaveMouseLeave(maxEvents) ==
    /\ canvas = "wave" /\ Hears("canvas", "mouseleave") /\ Event(maxEvents)
    /\ UNCHANGED pageVars /\ UNCHANGED gesture
    /\ pointerRef' = [pointerRef EXCEPT !.inside = FALSE]
    /\ UNCHANGED eventFrame
    /\ UNCHANGED <<clientW, clientH, surface, props, ampRef, speedRef, wlRef,
                   ripplesRef, lastY, injected>>

\* the window's resize event reaches resize() (line 378)
WaveWindowResize(maxEvents) ==
    /\ canvas = "wave" /\ Hears("window", "resize") /\ Event(maxEvents)
    /\ UNCHANGED pageVars /\ UNCHANGED gesture
    /\ surface' = Resized
    /\ UNCHANGED eventFrame
    /\ UNCHANGED <<clientW, clientH, props, ampRef, speedRef, wlRef, pointerRef,
                   ripplesRef, lastY, injected>>

\* the layout gives the canvas another client size (no handler runs)
ContainerResize(maxEvents) ==
    /\ Event(maxEvents)
    /\ UNCHANGED pageVars /\ UNCHANGED gesture
    /\ \E sz \in Sizes :
        /\ <<sz.w, sz.h>> # <<clientW, clientH>>
        /\ clientW' = sz.w
        /\ clientH' = sz.h
    /\ UNCHANGED eventFrame
    /\ UNCHANGED <<surface, props, ampRef, speedRef, wlRef, pointerRef,
                   ripplesRef, lastY, injected>>

----------------------------------------------------------------------------
(* ShoalingCanvas                                                           *)

\* strength below which rippleOffset removes a ripple: 0.25
ShoalRippleMin == 250000

\* what one pass of draw reads
ShoalCtx(time) ==
    [w |-> clientW, h |-> clientH, amp |-> ampRef, speed |-> speedRef,
     time |-> time, pointer |-> pointerRef]

\* the position of x on the slope, (x - slopeStart) / (slopeEnd - slopeStart),
\* in 1/1000, for slopeStart < x < slopeEnd
SlopeT(x, w) == ((100 * x - 18 * w) * 1000) \div (54 * w)

\* seabedY(x, w, h), 1/1000 px
seabedY(x, w, h) ==
    LET base == h * 1000 - Max(8000, h * 30)
        topY == h * 460
    IN  IF 100 * x <= 18 * w THEN base
        ELSE IF 100 * x <= 72 * w
             THEN base + ((topY - base) * SlopeT(x, w)) \div 1000
             ELSE topY

\* shoalProgress(x, w), 1/1000
shoalProgress(x, w) ==
    IF 100 * x <= 18 * w THEN 0
    ELSE IF 100 * x >= 72 * w THEN 1000
    ELSE LET t == SlopeT(x, w)
         IN  (((t * t) \div 1000) * (3000 - 2 * t)) \div 1000

\* A(x, w): the local amplitude, 1/1000 px
ShoalA(x, c) == MulMilli(c.amp, 1000 + (14 * shoalProgress(x, c.w)) \div 10)

\* lambda(x, w): the local wavelength, 1/1000 px
lambda(x, w) == 260000 - 190 * shoalProgress(x, w)

\* k * dx = (2 * Math.PI / lam) * 2, in 1/1000000 rad
ShoalPhaseStep(lam) == 1256637061 \div (lam \div 10)

\* rippleOffset(x): the displacement it returns and the ripples it leaves
ShoalRippleOffset(ripples, x) ==
    LET Dy(r) == ((r.strength \div 1000) * Envelope(r, x - r.x)) \div 1000
    IN  [dy      |-> SumSeq(MapSeq(Dy, ripples)),
         ripples |-> RipplesAfter(ripples, ShoalRippleMin, 1)]

\* the hover lift of the surface loop (lines 270-276)
ShoalLift(x, c) ==
    IF ~c.pointer.inside THEN 0
    ELSE LET d == Abs(x - c.pointer.x)
         IN  IF d < 90 THEN 2200 - (2200 * d) \div 90 ELSE 0

\* theta after the samples lo..hi of the surface loop (x = 2 * (i - 1)),
\* base being theta before sample lo: one value per sample, 1/1000000 rad
RECURSIVE ShoalThetas(_, _, _, _)
ShoalThetas(lo, hi, base, w) ==
    IF lo > hi THEN <<>>
    ELSE IF lo = hi THEN <<base + ShoalPhaseStep(lambda(2 * (lo - 1), w))>>
    ELSE LET mid  == (lo + hi) \div 2
             left == ShoalThetas(lo, mid, base, w)
         IN  left \o ShoalThetas(mid + 1, hi, left[Len(left)], w)

\* a surface that is not held above the seabed
ShoalUnclamped(yWave, bed) == yWave

\* Math.min(yWave, bed - 2) (line 283)
ShoalClamped(yWave, bed) == Min(yWave, bed - 2000)

\* the y of sample i of the surface loop (lines 265-286)
ShoalSurfaceY(i, theta, ripples, c) ==
    LET x     == 2 * (i - 1)
        ro    == ShoalRippleOffset(RipplesAfter(ripples, ShoalRippleMin, i - 1), x)
        yWave == c.h * 380 + (ShoalA(x, c) * Sin(theta \div 1000)) \div 1000
                 + ro.dy + ShoalLift(x, c)
    IN  ShoalClamped(yWave, seabedY(x, c.w, c.h))

\* the surface loop of draw: the path (its y values) and the ripples left
ShoalSurface(ripples, c) ==
    LET n      == c.w \div 2 + 1
        thetas == ShoalThetas(1, n, -((22 * c.time) \div 10), c.w)
    IN  [pts     |-> [i \in 1..n |-> ShoalSurfaceY(i, thetas[i], ripples, c)],
         ripples |-> RipplesAfter(ripples, ShoalRippleMin, n)]

\* crestSampler of draw (lines 329-333); x in 1/1000 px
ShoalCrestSampler(pts, x) ==
    pts[Max(0, Min(Len(pts) - 1, RoundDiv(x, 2000))) + 1]

\* max of updateParticles
ShoalMaxParticles(w) == Max(36, Min(120, w \div 8))

\* spawnN of updateParticles
ShoalSpawnN(n, max) == IF n < max THEN 3 ELSE 1

\* the particle pushed by the spawn loop, its six Math.random() calls drawn
\* from state s on
ShoalNewParticle(s, pts, c) ==
    LET x == c.w * 450 + Scale(s, c.w * 500)
    IN  [x       |-> x,
         y       |-> ShoalCrestSampler(pts, x) - 3000 + Scale(RngAfter(s, 1), 4000) - 2000,
         vx      |-> 800 + Scale(RngAfter(s, 2), 800) + (c.speed * 2) \div 5,
         vy      |-> -120 + Scale(RngAfter(s, 3), 240) - 120,
         life    |-> 0,
         maxLife |-> 60000 + Scale(RngAfter(s, 4), 70000),
         size    |-> 1000 + Scale(RngAfter(s, 5), 1800),
         alpha   |-> 850]

\* the spawn loop (lines 178-191) from counter i on, s the random state
RECURSIVE ShoalSpawn(_, _, _, _, _, _)
ShoalSpawn(i, spawnN, particles, s, pts, c) ==
    IF i >= spawnN
    THEN [particles |-> particles, rng |-> s]
    ELSE ShoalSpawn(i + 1, spawnN, Append(particles, ShoalNewParticle(s, pts, c)),
                    RngAfter(s, 6), pts, c)

\* p.alpha = 0.9 * (1 - p.life / p.maxLife) (lines 213-214)
ShoalFaded(life, maxLife) == 900 - (900 * life * 1000) \div maxLife

\* one iteration of the update loop of updateParticles, up to the fade
ShoalMoved(p, c) ==
    LET x  == p.x + p.vx
        y  == p.y + p.vy
        vy == p.vy + 4
        dx == (x - c.pointer.x * 1000) \div 10
        dy == (y - c.pointer.y * 1000) \div 10
        life == p.life + 1
    IN  [p EXCEPT !.life = life, !.x = x, !.y = y,
                  !.vx = IF c.pointer.inside THEN Repel(p.vx, dx, dy, 4000) ELSE p.vx,
                  !.vy = IF c.pointer.inside THEN Repel(vy, dy, dx, 4000) ELSE vy,
                  !.alpha = ShoalFaded(life, p.maxLife)]

\* the particle stays in the array (the splice is not taken)
ShoalKept(p, c) ==
    ~(p.life * 1000 >= p.maxLife \/ p.x > (c.w + 6) * 1000 \/ p.y > (c.h + 6) * 1000)

\* updateParticles(crest)
ShoalUpdateParticles(particles, s, pts, c) ==
    LET max     == ShoalMaxParticles(c.w)
        sp      == ShoalSpawn(0, ShoalSpawnN(Len(particles), max), particles, s, pts, c)
        Move(p) == ShoalMoved(p, c)
        Keep(p) == ShoalKept(p, c)
    IN  [particles |-> SelectSeq(MapSeq(Move, sp.particles), Keep),
         rng       |-> sp.rng,
         spawned   |-> Len(sp.particles) - Len(particles),
         fade      |-> [i \in 1..Len(sp.particles) |->
                           Faded(sp.particles[i], Move(sp.particles[i]),
                                 Keep(Move(sp.particles[i])))]]

\* the listeners the effect registers (lines 352, 398-403), k the closure
ShoalListeners(k) ==
    {[target |-> "window", type |-> "resize", run |-> k]} \cup
    {[target |-> "canvas", type |-> ty, run |-> k] :
        ty \in {"mousemove", "mouseleave", "click", "touchstart", "touchmove", "touchend"}}

\* the time step of draw (line 239), 1/1000000
ShoalTimeStep(speed) == 16 * (900 + (2 * speed) \div 5)

\* draw() of closure k with mounted true; pending is the browser's queue
\* without the request that is being served
ShoalDraw(k, pending) ==
    LET time == timeRef + ShoalTimeStep(speedRef)
        c    == ShoalCtx(time)
        sf   == ShoalSurface(Ticked(ripplesRef), c)
        up   == ShoalUpdateParticles(particlesRef, rng, sf.pts, c)
    IN  /\ timeRef' = time
        /\ ripplesRef' = sf.ripples
        /\ particlesRef' = up.particles
        /\ rng' = up.rng
        /\ rafRef' = nextRaf
        /\ nextRaf' = nextRaf + 1
        /\ rafQueue' = Requested(pending, nextRaf, k)
        /\ passes' = Passed(passes, k)
        /\ obs' = [Obs0 EXCEPT !.usedAmp = c.amp, !.spawned = up.spawned,
                               !.pts = sf.pts, !.w = c.w, !.h = c.h, !.by = k,
                               !.fade = up.fade]

\* the variables of the other two components
waveVars == <<wlRef, phaseRef>>

\* the effect of lines 94-417 runs: resize(), draw(), the listeners
ShoalSetup(maxSetups) ==
    /\ canvas = "shoal" /\ ~live /\ run < maxSetups
    /\ UNCHANGED pageVars /\ UNCHANGED gesture
    /\ run' = run + 1
    /\ live' = TRUE
    /\ mounted' = mounted \cup {run + 1}
    /\ surface' = Resized
    /\ ShoalDraw(run + 1, rafQueue)
    /\ listeners' = listeners \cup ShoalListeners(run + 1)
    /\ lastY' = 0
    /\ UNCHANGED <<canvas, now, frameMs, dpr, clientW, clientH, props, ampRef,
                   speedRef, pointerRef, events, injected>>
    /\ UNCHANGED waveVars /\ UNCHANGED typhoonVars

\* the cleanup the effect returns (lines 406-416)
ShoalCleanup ==
    /\ canvas = "shoal" /\ live
    /\ UNCHANGED pageVars /\ UNCHANGED gesture
    /\ live' = FALSE
    /\ mounted' = mounted \ {run}
    /\ listeners' = Removed(listeners, ShoalListeners(run))
    /\ rafQueue' = IF rafRef # 0 THEN Cancelled(rafQueue, rafRef) ELSE rafQueue
    /\ UNCHANGED <<canvas, now, frameMs, dpr, clientW, clientH, surface, props,
                   ampRef, speedRef, timeRef, pointerRef, ripplesRef,
                   particlesRef, lastY, run, rafRef, nextRaf, rng, obs, passes,
                   events, injected>>
    /\ UNCHANGED waveVars /\ UNCHANGED typhoonVars

\* the browser serves a pending frame request: draw() of the closure that
\* asked for it
ShoalFrame(maxFrames) ==
    /\ canvas = "shoal" /\ FramesRun < maxFrames
    /\ UNCHANGED pageVars /\ UNCHANGED gesture
    /\ \E f \in rafQueue :
        /\ now' = now + frameMs
        /\ IF f.run \in mounted
           THEN ShoalDraw(f.run, rafQueue \ {f})
           ELSE /\ rafQueue' = rafQueue \ {f}
                /\ UNCHANGED <<timeRef, ripplesRef, particlesRef, rng, rafRef,
                               nextRaf, passes, obs>>
    /\ UNCHANGED <<canvas, frameMs, dpr, clientW, clientH, surface, props, ampRef,
                   speedRef, pointerRef, lastY, run, live, mounted, listeners,
                   events, injected>>
    /\ UNCHANGED waveVars /\ UNCHANGED typhoonVars

\* a render with a changed amplitude option: the effect of lines 87-89
ShoalSetAmplitude(maxEvents) ==
    /\ canvas = "shoal" /\ live /\ Event(maxEvents)
    /\ UNCHANGED pageVars /\ UNCHANGED gesture
    /\ \E a \in Amplitudes :
        /\ a # props.amplitude
        /\ props' = [props EXCEPT !.amplitude = a]
        /\ ampRef' = a
    /\ UNCHANGED eventFrame
    /\ UNCHANGED <<clientW, clientH, surface, speedRef, wlRef, pointerRef,
                   ripplesRef, lastY, injected>>

\* a render with a changed speed option: the effect of lines 90-92
ShoalSetSpeed(maxEvents) ==
    /\ canvas = "shoal" /\ live /\ Event(maxEvents)
    /\ UNCHANGED pageVars /\ UNCHANGED gesture
    /\ \E sp \in Speeds :
        /\ sp # props.speed
        /\ props' = [props EXCEPT !.speed = sp]
        /\ speedRef' = sp
    /\ UNCHANGED eventFrame
    /\ UNCHANGED <<clientW, clientH, surface, ampRef, wlRef, pointerRef,
                   ripplesRef, lastY, injected>>

\* onTouchStart (lines 356-358)
ShoalTouchStart(maxEvents) ==
    /\ canvas = "shoal" /\ Hears("canvas", "touchstart") /\ Event(maxEvents)
    /\ UNCHANGED pageVars
    /\ \E y \in TouchYs : lastY' = y
    /\ gesture' = "tap"
    /\ UNCHANGED eventFrame
    /\ UNCHANGED <<clientW, clientH, surface, props, ampRef, speedRef, wlRef,
                   pointerRef, ripplesRef, injected>>

\* the amplitude onTouchMove leaves for the drag delta dy (line 363)
ShoalDragged(amp, dy) == Max(6000, Min(120000, amp + dy * 220))

\* onTouchMove (lines 359-364)
ShoalTouchMove(maxEvents) ==
    /\ canvas = "shoal" /\ Hears("canvas", "touchmove") /\ Event(maxEvents)
    /\ UNCHANGED pageVars
    /\ \E y \in TouchYs :
        /\ lastY' = y
        /\ ampRef' = ShoalDragged(ampRef, lastY - y)
        /\ gesture' = Moved(gesture, ampRef, ShoalDragged(ampRef, lastY - y))
    /\ UNCHANGED eventFrame
    /\ UNCHANGED <<clientW, clientH, surface, props, speedRef, wlRef, pointerRef,
                   ripplesRef, injected>>

\* spawnRipple(x) (lines 378-385)
ShoalSpawnRipple(ripples, px, id) ==
    Append(ripples, [x |-> px, strength |-> 10000000, radius |-> 120,
                     decay |-> 985, id |-> id, ticks |-> 0])

\* onClick (lines 386-389)
ShoalClick(maxEvents) ==
    /\ canvas = "shoal" /\ Hears("canvas", "click") /\ Event(maxEvents)
    /\ UNCHANGED pageVars /\ UNCHANGED gesture
    /\ \E px \in RippleXs : ripplesRef' = ShoalSpawnRipple(ripplesRef, px, injected + 1)
    /\ injected' = injected + 1
    /\ UNCHANGED eventFrame
    /\ UNCHANGED <<clientW, clientH, surface, props, ampRef, speedRef, wlRef,
                   pointerRef, lastY>>

\* onTouchEnd (lines 390-395)
ShoalTouchEnd(maxEvents) ==
    /\ canvas = "shoal" /\ Hears("canvas", "touchend") /\ Event(maxEvents)
    /\ UNCHANGED pageVars
    /\ \E px \in RippleXs : ripplesRef' = ShoalSpawnRipple(ripplesRef, px, injected + 1)
    /\ injected' = injected + 1
    /\ gesture' = "idle"
    /\ UNCHANGED eventFrame
    /\ UNCHANGED <<clientW, clientH, surface, props, ampRef, speedRef, wlRef,
                   pointerRef, lastY>>

\* onMouseMove (lines 367-372)
ShoalMouseMove(maxEvents) ==
    /\ canvas = "shoal" /\ Hears("canvas", "mousemove") /\ Event(maxEvents)
    /\ UNCHANGED pageVars /\ UNCHANGED gesture
    /\ \E p \in Points : pointerRef' = [x |-> p.x, y |-> p.y, inside |-> TRUE]
    /\ UNCHANGED eventFrame
    /\ UNCHANGED <<clientW, clientH, surface, props, ampRef, speedRef, wlRef,
                   ripplesRef, lastY, injected>>

\* onMouseLeave (lines 373-375)
ShoalMouseLeave(maxEvents) ==
    /\ canvas = "shoal" /\ Hears("canvas", "mouseleave") /\ Event(maxEvents)
    /\ UNCHANGED pageVars /\ UNCHANGED gesture
    /\ pointerRef' = [pointerRef EXCEPT !.inside = FALSE]
    /\ UNCHANGED eventFrame
    /\ UNCHANGED <<clientW, clientH, surface, props, ampRef, speedRef, wlRef,
                   ripplesRef, lastY, injected>>

\* the window's resize event reaches resize() (line 352)
ShoalWindowResize(maxEvents) ==
    /\ canvas = "shoal" /\ Hears("window", "resize") /\ Event(maxEvents)
    /\ UNCHANGED pageVars /\ UNCHANGED gesture
    /\ surface' = Resized
    /\ UNCHANGED eventFrame
    /\ UNCHANGED <<clientW, clientH, props, ampRef, speedRef, wlRef, pointerRef,
                   ripplesRef, lastY, injected>>

----------------------------------------------------------------------------
(* TyphoonCanvas                                                            *)

\* resize() (lines 78-85)
TyphoonResized ==
    [w |-> Max(1, (clientW * dpr) \div 1000), h |-> Max(1, (clientH * dpr) \div 1000)]

\* a center that is never wrapped
sampleCenterUnwrapped(ms, w, h, c) ==
    LET x   == -120000 + ms * c.travel
        arg == (((x + 160000) \div Max(360, w)) * TwoPiMilli) \div 1000
    IN  [x |-> x, y |-> h * 500 + c.pathAmp * Sin(arg)]

\* sampleCenter(tSec) for tSec = ms / 1000; the center in 1/1000 px
sampleCenter(ms, w, h, c) ==
    LET totalX == JsRem(ms * c.travel, (w + 240) * 1000)
        x      == -120000 + totalX
        arg    == (((x + 160000) \div Max(360, w)) * TwoPiMilli) \div 1000
    IN  [x |-> x, y |-> h * 500 + c.pathAmp * Sin(arg)]

\* a wind that is only kept from being negative
windKUnbounded(wind) == Max(0, wind)

\* windK of drawCyclone (line 115), 1/1000
windK(wind) == Max(0, Min(1600, wind))

\* bandCount of drawCyclone (line 116); bands in 1/10
bandCount(bands) == Max(1, Min(10, RoundDiv(bands, 10)))

\* drawCyclone: the number of bands it strokes and every value it derives
\* from the wind: the starting radius a, baseAlpha, lineBase, the lightness
\* of the stroke, the eye radius and the alpha of the eyewall (1/1000)
drawCyclone(c) ==
    LET k == windK(c.wind)
    IN  [bandCount    |-> bandCount(c.bands),
         a            |-> 3000 + 3 * k,
         baseAlpha    |-> 80 + (18 * k) \div 100,
         lineBase     |-> Max(600, k),
         lightness    |-> IF k > 1000 THEN 60 ELSE 65,
         eyeR         |-> 8000 + 3 * k,
         eyewallAlpha |-> 350 + (15 * k) \div 100]

\* Math.hypot(a.x - b.x, a.y - b.y) > 2
FartherThan2(a, b) ==
    LET dx == Abs(a.x - b.x)
        dy == Abs(a.y - b.y)
    IN  dx > 2000 \/ dy > 2000 \/ dx * dx + dy * dy > 4000000

\* the longest trail the loop keeps
TrailCap == 400

\* a push that drops the new center when the trail is full
TrailPushedKeepingOldest(pts, c) ==
    IF Len(pts) >= TrailCap THEN pts ELSE Append(pts, c)

\* pts.push(c) and the trim of lines 212-214
TrailPushed(pts, c) ==
    LET q == Append(pts, c)
    IN  IF Len(q) > TrailCap THEN SubSeq(q, Len(q) - TrailCap + 1, Len(q)) ELSE q

\* the center of the tick at time t, as the trail holds it; at (the time it
\* was sampled, ms) is kept for the claims
Sampled(c, t) == [x |-> c.x, y |-> c.y, at |-> t]

\* a sampling step without the 40 ms throttle
TrailRecordsUnthrottled(pts, c, t, last) ==
    Len(pts) = 0 \/ FartherThan2(pts[Len(pts)], c)

\* the sampling step of loop records the center c (lines 209-211)
TrailRecords(pts, c, t, last) ==
    t - last > 40 /\ (Len(pts) = 0 \/ FartherThan2(pts[Len(pts)], c))

\* the trail after the sampling step of loop (lines 209-217)
TrailSampled(pts, c, t, last) ==
    IF TrailRecords(pts, c, t, last) THEN TrailPushed(pts, c) ELSE pts

\* the observer the effect registers (lines 88-89), k the closure
TyphoonListeners(k) == {[target |-> "canvas", type |-> "ResizeObserver", run |-> k]}

\* the effect of lines 73-232 runs
TyphoonSetup(maxSetups) ==
    /\ canvas = "typhoon" /\ ~live /\ run < maxSetups
    /\ UNCHANGED pageVars /\ UNCHANGED gesture
    /\ run' = run + 1
    /\ live' = TRUE
    /\ surface' = TyphoonResized
    /\ listeners' = listeners \cup TyphoonListeners(run + 1)
    /\ centersRef' = <<>>
    /\ startTimeRef' = now
    /\ lastTrailSample' = 0
    /\ rafRef' = nextRaf
    /\ nextRaf' = nextRaf + 1
    /\ rafQueue' = Requested(rafQueue, nextRaf, run + 1)
    /\ UNCHANGED <<canvas, now, frameMs, dpr, clientW, clientH, props, ampRef,
                   speedRef, pointerRef, ripplesRef, particlesRef, lastY,
                   mounted, rng, cyc, obs, passes, events, injected>>
    /\ UNCHANGED waveVars /\ UNCHANGED shoalVars

\* the cleanup the effect returns (lines 228-231)
TyphoonCleanup ==
    /\ canvas = "typhoon" /\ live
    /\ UNCHANGED pageVars /\ UNCHANGED gesture
    /\ live' = FALSE
    /\ rafQueue' = IF rafRef # 0 THEN Cancelled(rafQueue, rafRef) ELSE rafQueue
    /\ listeners' = Removed(listeners, TyphoonListeners(run))
    /\ UNCHANGED <<canvas, now, frameMs, dpr, clientW, clientH, surface, props,
                   ampRef, speedRef, pointerRef, ripplesRef, particlesRef,
                   lastY, run, mounted, rafRef, nextRaf, rng, obs, passes,
                   events, injected>>
    /\ UNCHANGED waveVars /\ UNCHANGED shoalVars /\ UNCHANGED typhoonVars

\* the browser serves a pending frame request: loop() of the closure that
\* asked for it (lines 193-224)
TyphoonFrame(maxFrames) ==
    /\ canvas = "typhoon" /\ FramesRun < maxFrames
    /\ UNCHANGED pageVars /\ UNCHANGED gesture
    /\ \E f \in rafQueue :
        LET t == now + frameMs
            c == Sampled(sampleCenter(t - startTimeRef, clientW, clientH, cyc), t)
            q == TrailSampled(centersRef, c, t, lastTrailSample)
        IN  /\ now' = t
            /\ centersRef' = q
            /\ lastTrailSample' = IF t - lastTrailSample > 40 THEN t ELSE lastTrailSample
            /\ rafRef' = nextRaf
            /\ nextRaf' = nextRaf + 1
            /\ rafQueue' = Requested(rafQueue \ {f}, nextRaf, f.run)
            /\ passes' = Passed(passes, f.run)
            /\ obs' = [Obs0 EXCEPT !.w = clientW, !.h = clientH, !.by = f.run,
                                   !.center = c,
                                   !.pushed = TrailRecords(centersRef, c, t, lastTrailSample),
                                   !.cyclone = drawCyclone(cyc)]
    /\ UNCHANGED <<canvas, frameMs, dpr, clientW, clientH, surface, props, ampRef,
                   speedRef, pointerRef, ripplesRef, particlesRef, lastY, run,
                   live, mounted, listeners, rng, startTimeRef, cyc, events,
                   injected>>
    /\ UNCHANGED waveVars /\ UNCHANGED shoalVars

\* option values of the cyclone: spin (1/1000 rad/s), travel (px/s),
\* wind (1/1000), pathAmp (px), bands (1/10)
Spins == {1000, 0}

Travels == {80, 180, -80, 20}

Winds == {900, 2500, -500}

PathAmps == {60, 0}

BandCounts == {50, 150, 0, 26}

\* a render with one changed option: the effects of lines 54-68
TyphoonSetOption(maxEvents) ==
    /\ canvas = "typhoon" /\ live /\ Event(maxEvents)
    /\ UNCHANGED pageVars /\ UNCHANGED gesture
    /\ \/ \E v \in Spins : v # cyc.spin /\ cyc' = [cyc EXCEPT !.spin = v]
       \/ \E v \in Travels : v # cyc.travel /\ cyc' = [cyc EXCEPT !.travel = v]
       \/ \E v \in Winds : v # cyc.wind /\ cyc' = [cyc EXCEPT !.wind = v]
       \/ \E v \in PathAmps : v # cyc.pathAmp /\ cyc' = [cyc EXCEPT !.pathAmp = v]
       \/ \E v \in BandCounts : v # cyc.bands /\ cyc' = [cyc EXCEPT !.bands = v]
    /\ UNCHANGED <<canvas, frameMs, dpr, now, run, live, mounted, rafRef, rafQueue,
                   nextRaf, listeners, phaseRef, timeRef, particlesRef, rng, obs,
                   passes, startTimeRef, centersRef, lastTrailSample>>
    /\ UNCHANGED <<clientW, clientH, surface, props, ampRef, speedRef, wlRef,
                   pointerRef, ripplesRef, lastY, injected>>

\* the ResizeObserver calls resize() (line 88)
TyphoonObserved(maxEvents) ==
    /\ canvas = "typhoon" /\ Hears("canvas", "ResizeObserver") /\ Event(maxEvents)
    /\ UNCHANGED pageVars /\ UNCHANGED gesture
    /\ surface' = TyphoonResized
    /\ UNCHANGED eventFrame
    /\ UNCHANGED <<clientW, clientH, props, ampRef, speedRef, wlRef, pointerRef,
                   ripplesRef, lastY, injected>>

----------------------------------------------------------------------------
(* QuizPage (pages/Quiz.tsx) and TyphoonQuizQuestion                        *)

\* questions of the quiz (questions.length)
NQuestions == 3

\* options of a question (A to D)
NOptions == 4

\* null: no option picked
NoAnswer == -1

\* Object.fromEntries(questions.map((q) => [q.id, null])) (lines 55-57, 90)
Unanswered == [i \in 0..(NQuestions - 1) |-> NoAnswer]

\* picked = answers[q.id] (line 62)
picked == answers[current]

\* allAnswered (lines 65-68)
allAnswered == \A i \in DOMAIN answers : answers[i] # NoAnswer

\* the loader's state, which no handler of the quiz touches
loaderVars == <<hooks, loadingMap, cacheMap, calls>>

\* a click, Enter or Space on option idx: OptionItem is disabled once the
\* quiz is submitted (TyphoonQuizQuestion.tsx 68-74, 113, 117), else onPick
\* (Quiz.tsx 76-78)
QuizPick ==
    /\ \E idx \in 0..(NOptions - 1), how \in {"click", "Enter", "Space"} :
        /\ quizInput' = how
        /\ answers' = IF submitted THEN answers ELSE [answers EXCEPT ![current] = idx]
    /\ UNCHANGED <<current, submitted>>
    /\ UNCHANGED loaderVars /\ UNCHANGED canvasVars

\* next (lines 80-82)
next(i) == Min(i + 1, NQuestions - 1)

\* prev (lines 83-85)
prev(i) == Max(i - 1, 0)

\* a click on the Next button, which is disabled when submitted, on the last
\* question and while nothing is picked (lines 158-162)
QuizNextButton ==
    /\ quizInput' = "Next"
    /\ current' = IF submitted \/ current = NQuestions - 1 \/ picked = NoAnswer
                  THEN current ELSE next(current)
    /\ UNCHANGED <<answers, submitted>>
    /\ UNCHANGED loaderVars /\ UNCHANGED canvasVars

\* a click on the Prev button, disabled when submitted and on the first
\* question (lines 150-154)
QuizPrevButton ==
    /\ quizInput' = "Prev"
    /\ current' = IF submitted \/ current = 0 THEN current ELSE prev(current)
    /\ UNCHANGED <<answers, submitted>>
    /\ UNCHANGED loaderVars /\ UNCHANGED canvasVars

\* a key handler that ignores the submission
KeysNeverLocked(sub) == FALSE

\* if (submitted) return (line 98)
KeysLocked(sub) == sub

\* keydown ArrowRight on the window (lines 97-99)
QuizArrowRight ==
    /\ quizInput' = "ArrowRight"
    /\ current' = IF KeysLocked(submitted) THEN current ELSE next(current)
    /\ UNCHANGED <<answers, submitted>>
    /\ UNCHANGED loaderVars /\ UNCHANGED canvasVars

\* keydown ArrowLeft on the window (lines 97-100)
QuizArrowLeft ==
    /\ quizInput' = "ArrowLeft"
    /\ current' = IF KeysLocked(submitted) THEN current ELSE prev(current)
    /\ UNCHANGED <<answers, submitted>>
    /\ UNCHANGED loaderVars /\ UNCHANGED canvasVars

\* a click on the submit button, rendered while not submitted and enabled
\* once every question is answered (lines 87, 169-177)
QuizSubmit ==
    /\ ~submitted /\ allAnswered
    /\ quizInput' = "submit"
    /\ submitted' = TRUE
    /\ UNCHANGED <<current, answers>>
    /\ UNCHANGED loaderVars /\ UNCHANGED canvasVars

\* a click on the reset button, rendered once submitted (lines 89-93, 179-186)
QuizReset ==
    /\ submitted
    /\ quizInput' = "reset"
    /\ answers' = Unanswered
    /\ current' = 0
    /\ submitted' = FALSE
    /\ UNCHANGED loaderVars /\ UNCHANGED canvasVars

----------------------------------------------------------------------------
(* imageLoader.ts: ImageLoader and useImageLoader                           *)

\* the hooks mounted on the page
Hooks == {1, 2}

\* the values of the src argument: the empty string and two URLs
Srcs == {"", "a", "b"}

\* calls of load per behaviour
MaxCalls == 3

\* defaultConfig.retryCount (line 166)
retryCount == 3

\* the state of the pages when they are constructed
PagesInit ==
    /\ current = 0
    /\ answers = Unanswered
    /\ submitted = FALSE
    /\ quizInput = "none"
    /\ hooks = [h \in Hooks |->
                    [src |-> "", status |-> "pending", img |-> "", error |-> ""]]
    /\ loadingMap = {}
    /\ cacheMap = {}
    /\ calls = <<>>

quizVars == <<current, answers, submitted, quizInput>>

\* the call of load by hook h for src, none of its callbacks invoked yet
Call(h, src) == [hook |-> h, src |-> src, onLoad |-> 0, onError |-> 0]

\* the onLoad callback of the hook (lines 362-366): setImg, setStatus
HookOnLoad(hs, h, img) ==
    [hs EXCEPT ![h].img = img, ![h].status = "loaded"]

\* the onError callback of the hook (lines 367-371): setError, setStatus
HookOnError(hs, h, error) ==
    [hs EXCEPT ![h].error = error, ![h].status = "error"]

\* the effect of useImageLoader runs for a src it has not run for (lines
\* 350-373), load (lines 190-223) up to its await included
HookEffect ==
    \E h \in Hooks, src \in Srcs :
        /\ src # hooks[h].src \/ hooks[h].status = "pending"
        /\ IF src = ""
           THEN /\ hooks' = [hooks EXCEPT ![h].src = src, ![h].status = "error",
                                          ![h].error = "empty"]
                /\ UNCHANGED <<loadingMap, cacheMap, calls>>
           ELSE /\ Len(calls) < MaxCalls
                /\ LET loading == [hooks EXCEPT ![h].src = src,
                                                ![h].status = "loading"]
                       id      == Len(calls) + 1
                   IN  IF src \in cacheMap
                       THEN /\ hooks' = HookOnLoad(loading, h, src)
                            /\ calls' = Append(calls, [Call(h, src) EXCEPT !.onLoad = 1])
                            /\ UNCHANGED <<loadingMap, cacheMap>>
                       ELSE IF \E t \in loadingMap : t.src = src
                       THEN /\ hooks' = loading
                            /\ calls' = Append(calls, Call(h, src))
                            /\ UNCHANGED <<loadingMap, cacheMap>>
                       ELSE /\ hooks' = loading
                            /\ calls' = Append(calls, Call(h, src))
                            /\ loadingMap' = loadingMap \cup
                                   {[src |-> src, call |-> id, retries |-> 0]}
                            /\ UNCHANGED cacheMap
        /\ UNCHANGED quizVars /\ UNCHANGED canvasVars

\* img.onload of the attempt of task t (lines 253-257), and load after its
\* await (lines 210-222)
AttemptLoads(src) ==
    \E t \in loadingMap :
        /\ t.src = src
        /\ hooks' = HookOnLoad(hooks, calls[t.call].hook, t.src)
        /\ calls' = [calls EXCEPT ![t.call].onLoad = @ + 1]
        /\ cacheMap' = cacheMap \cup {t.src}
        /\ loadingMap' = loadingMap \ {t}
        /\ UNCHANGED quizVars /\ UNCHANGED canvasVars

\* an attempt of task t ends without an image: another attempt while
\* retries < retryCount, else onError and the task resolves
AttemptEndsIn(t, error) ==
    IF t.retries < retryCount
    THEN /\ loadingMap' = (loadingMap \ {t}) \cup {[t EXCEPT !.retries = @ + 1]}
         /\ UNCHANGED <<hooks, calls, cacheMap>>
    ELSE /\ hooks' = HookOnError(hooks, calls[t.call].hook, error)
         /\ calls' = [calls EXCEPT ![t.call].onError = @ + 1]
         /\ loadingMap' = loadingMap \ {t}
         /\ UNCHANGED cacheMap

\* img.onerror of the attempt of task t (lines 259-270)
AttemptFails(src) ==
    \E t \in loadingMap :
        /\ t.src = src
        /\ AttemptEndsIn(t, "failed")
        /\ UNCHANGED quizVars /\ UNCHANGED canvasVars

\* the timer of the attempt of task t fires (lines 239-251)
AttemptTimesOut(src) ==
    \E t \in loadingMap :
        /\ t.src = src
        /\ AttemptEndsIn(t, "timeout")
        /\ UNCHANGED quizVars /\ UNCHANGED canvasVars

\* the attempt in flight for src ends
AttemptEnds(src) == AttemptLoads(src) \/ AttemptFails(src) \/ AttemptTimesOut(src)

----------------------------------------------------------------------------
(* Specifications                                                           *)

\* ms between frames: displays of about 120 Hz and 60 Hz
FrameIntervals == {8, 16}

\* the state after the component is constructed and before its effects run
InitOf(canvases, sizes, intervals) ==
    /\ canvas \in canvases
    /\ now = PageAge
    /\ frameMs \in intervals
    /\ dpr = 1500
    /\ \E sz \in sizes : clientW = sz.w /\ clientH = sz.h
    /\ surface = [w |-> 300, h |-> 150]
    /\ props = [amplitude |-> 40000, speed |-> 1000, wavelength |-> 280]
    /\ ampRef = 40000
    /\ speedRef = 1000
    /\ wlRef = 280
    /\ phaseRef = 0
    /\ timeRef = 0
    /\ pointerRef = [x |-> 0, y |-> 0, inside |-> FALSE]
    /\ ripplesRef = <<>>
    /\ particlesRef = <<>>
    /\ lastY = 0
    /\ run = 0
    /\ live = FALSE
    /\ mounted = {}
    /\ rafRef = 0
    /\ rafQueue = {}
    /\ nextRaf = 1
    /\ listeners = {}
    /\ rng \in 0..MaxSeed
    /\ startTimeRef = PageAge
    /\ centersRef = <<>>
    /\ lastTrailSample = 0
    /\ cyc = [spin |-> 1000, travel |-> 80, wind |-> 900, pathAmp |-> 60, bands |-> 50]
    /\ obs = Obs0
    /\ passes = <<>>
    /\ events = 0
    /\ injected = 0
    /\ gesture = "idle"
    /\ PagesInit

\* the client size the canvas starts with, px
Client == [w |-> 100, h |-> 260]

\* The general specification: any of the three components, through setups,
\* frames, cleanups, option changes and input events.
Init == InitOf({"wave", "shoal", "typhoon"}, {Client}, FrameIntervals)

Next ==
    \/ WaveSetup(MaxSetups) \/ WaveCleanup \/ WaveFrame(MaxFrames)
    \/ WaveSetProps(MaxEvents) \/ WaveTouchStart(MaxEvents) \/ WaveTouchMove(MaxEvents)
    \/ WaveTouchEnd(MaxEvents) \/ WaveClick(MaxEvents) \/ WaveMouseMove(MaxEvents)
    \/ WaveMouseLeave(MaxEvents) \/ WaveWindowResize(MaxEvents)
    \/ ShoalSetup(MaxSetups) \/ ShoalCleanup \/ ShoalFrame(MaxFrames)
    \/ ShoalSetAmplitude(MaxEvents) \/ ShoalSetSpeed(MaxEvents)
    \/ ShoalTouchStart(MaxEvents) \/ ShoalTouchMove(MaxEvents)
    \/ ShoalTouchEnd(MaxEvents) \/ ShoalClick(MaxEvents) \/ ShoalMouseMove(MaxEvents)
    \/ ShoalMouseLeave(MaxEvents) \/ ShoalWindowResize(MaxEvents)
    \/ TyphoonSetup(MaxSetups) \/ TyphoonCleanup \/ TyphoonFrame(MaxFrames)
    \/ TyphoonSetOption(MaxEvents) \/ TyphoonObserved(MaxEvents)
    \/ ContainerResize(MaxEvents)

Spec == Init /\ [][Next]_vars

----------------------------------------------------------------------------
(* Touch drags: option changes and touch events of a mounted wave canvas    *)

\* option changes and touch events per behaviour
DragEvents == 3

InitDrag == InitOf({"wave", "shoal"}, {Client}, {16})

NextDrag ==
    \/ WaveSetup(MaxSetups) \/ WaveSetProps(DragEvents)
    \/ WaveTouchStart(DragEvents) \/ WaveTouchMove(DragEvents)
    \/ ShoalSetup(MaxSetups) \/ ShoalSetAmplitude(DragEvents)
    \/ ShoalTouchStart(DragEvents) \/ ShoalTouchMove(DragEvents)

SpecDrag == InitDrag /\ [][NextDrag]_vars

----------------------------------------------------------------------------
(* Foam: enough frames for the particles to reach the capacity              *)

\* frames per behaviour
FoamFrames == 14

\* pointer and touch events per behaviour
FoamEvents == 1

InitFoam == InitOf({"wave", "shoal"}, {Client}, {16})

NextFoam ==
    \/ WaveSetup(MaxSetups) \/ WaveFrame(FoamFrames)
    \/ WaveMouseMove(FoamEvents) \/ WaveClick(FoamEvents) \/ WaveTouchMove(FoamEvents)
    \/ ShoalSetup(MaxSetups) \/ ShoalFrame(FoamFrames)
    \/ ShoalMouseMove(FoamEvents) \/ ShoalClick(FoamEvents) \/ ShoalTouchMove(FoamEvents)

SpecFoam == InitFoam /\ [][NextFoam]_vars

----------------------------------------------------------------------------
(* Ripples: one ripple, injected early, followed until it is removed        *)

\* frames per behaviour
RippleFrames == 285

\* the click comes before this many frames have run
RippleWindow == 2

\* the narrowest canvas (one sample per layer) and a wider one
RippleSizes == {[w |-> 0, h |-> 260], [w |-> 20, h |-> 260]}

InitRipple == InitOf({"wave", "shoal"}, RippleSizes, {16})

WaveEarlyClick == FramesRun < RippleWindow /\ WaveClick(1)

ShoalEarlyClick == FramesRun < RippleWindow /\ ShoalClick(1)

NextRipple ==
    \/ WaveSetup(MaxSetups) \/ WaveFrame(RippleFrames) \/ WaveEarlyClick
    \/ ShoalSetup(MaxSetups) \/ ShoalFrame(RippleFrames) \/ ShoalEarlyClick

SpecRipple == InitRipple /\ [][NextRipple]_vars

----------------------------------------------------------------------------
(* Trail: a cyclone followed until its trail is full                        *)

\* frames per behaviour
TrailFrames == 405

\* a display of 20 Hz: every frame passes the 40 ms throttle of the trail
InitTrail == InitOf({"typhoon"}, {Client}, {50})

NextTrail == TyphoonSetup(MaxSetups) \/ TyphoonFrame(TrailFrames)

SpecTrail == InitTrail /\ [][NextTrail]_vars

----------------------------------------------------------------------------
(* Cyclone: a typhoon canvas through option changes, resizes and frames,    *)
(* on a 60 Hz display and on one whose frames come 5 s apart (a tab that is *)
(* shown again after it was hidden)                                         *)

\* frames per behaviour
CycloneFrames == 3

\* option changes and resizes per behaviour
CycloneEvents == 2

InitCyclone == InitOf({"typhoon"}, {Client}, {16, 5000})

NextCyclone ==
    \/ TyphoonSetup(MaxSetups) \/ TyphoonCleanup \/ TyphoonFrame(CycloneFrames)
    \/ TyphoonSetOption(CycloneEvents) \/ TyphoonObserved(CycloneEvents)
    \/ ContainerResize(CycloneEvents)

SpecCyclone == InitCyclone /\ [][NextCyclone]_vars

----------------------------------------------------------------------------
(* Surface: a shoaling canvas under amplitude changes, drags, ripples, the  *)
(* pointer and resizes                                                      *)

\* frames per behaviour
SurfaceFrames == 1

\* option changes and input events per behaviour
SurfaceEvents == 2

InitSurface == InitOf({"shoal"}, {Client}, {16})

NextSurface ==
    \/ ShoalSetup(MaxSetups) \/ ShoalFrame(SurfaceFrames)
    \/ ShoalSetAmplitude(SurfaceEvents) \/ ShoalTouchMove(SurfaceEvents)
    \/ ShoalClick(SurfaceEvents) \/ ShoalMouseMove(SurfaceEvents)
    \/ ContainerResize(SurfaceEvents)

SpecSurface == InitSurface /\ [][NextSurface]_vars

----------------------------------------------------------------------------
(* Fade: foam particles followed until the oldest have lived their life     *)

\* frames per behaviour
FadeFrames == 80

\* the pointer enters before this many frames have run
FadeWindow == 1

\* a canvas wide enough for a particle to stay inside for its whole life
FadeSizes == {[w |-> 400, h |-> 260]}

InitFade == InitOf({"wave", "shoal"}, FadeSizes, {16})

WaveEarlyMouseMove == FramesRun < FadeWindow /\ WaveMouseMove(1)

ShoalEarlyMouseMove == FramesRun < FadeWindow /\ ShoalMouseMove(1)

NextFade ==
    \/ WaveSetup(MaxSetups) \/ WaveFrame(FadeFrames) \/ WaveEarlyMouseMove
    \/ ShoalSetup(MaxSetups) \/ ShoalFrame(FadeFrames) \/ ShoalEarlyMouseMove

SpecFade == InitFade /\ [][NextFade]_vars

----------------------------------------------------------------------------
(* Sampling: the trail of a cyclone on displays whose frames come 16 ms and *)
(* 25 ms apart, so that the throttle lets one tick in three or in two pass  *)

\* frames per behaviour
SampleFrames == 8

\* option changes and resizes per behaviour
SampleEvents == 1

InitSample == InitOf({"typhoon"}, {Client}, {16, 25})

NextSample ==
    \/ TyphoonSetup(MaxSetups) \/ TyphoonCleanup \/ TyphoonFrame(SampleFrames)
    \/ TyphoonSetOption(SampleEvents) \/ TyphoonObserved(SampleEvents)
    \/ ContainerResize(SampleEvents)

SpecSample == InitSample /\ [][NextSample]_vars

----------------------------------------------------------------------------
(* Clicks: mouse clicks, pointer moves and drags on a narrow canvas, with    *)
(* enough frames for a ripple to fade away                                  *)

\* frames per behaviour
ClickFrames == 5

\* input events per behaviour
ClickEvents == 2

\* a canvas of 11 samples
ClickSizes == {[w |-> 20, h |-> 260]}

InitClick == InitOf({"wave", "shoal"}, ClickSizes, {16})

NextClick ==
    \/ WaveSetup(MaxSetups) \/ WaveFrame(ClickFrames)
    \/ WaveClick(ClickEvents) \/ WaveMouseMove(ClickEvents) \/ WaveTouchMove(ClickEvents)
    \/ ShoalSetup(MaxSetups) \/ ShoalFrame(ClickFrames)
    \/ ShoalClick(ClickEvents) \/ ShoalMouseMove(ClickEvents)
    \/ ShoalTouchMove(ClickEvents)

SpecClick == InitClick /\ [][NextClick]_vars

----------------------------------------------------------------------------
(* Wide canvases: the widths at which one tick samples a ripple as often as *)
(* it takes to remove it, and the widths just below                         *)

\* frames per behaviour
WideFrames == 1

\* clicks per behaviour
WideEvents == 2

\* 5 * 54 = 270 and 5 * 55 = 275 samples per tick of WaveCanvas, 244 and
\* 245 of ShoalingCanvas
WideSizes == {[w |-> 106, h |-> 260], [w |-> 108, h |-> 260],
              [w |-> 486, h |-> 260], [w |-> 488, h |-> 260]}

InitWide == InitOf({"wave", "shoal"}, WideSizes, {16})

NextWide ==
    \/ WaveSetup(MaxSetups) \/ WaveFrame(WideFrames) \/ WaveClick(WideEvents)
    \/ ShoalSetup(MaxSetups) \/ ShoalFrame(WideFrames) \/ ShoalClick(WideEvents)

SpecWide == InitWide /\ [][NextWide]_vars

----------------------------------------------------------------------------
(* Shrinking: a wide wave canvas fills up, the layout narrows it once, and  *)
(* the canvas runs on for more than the longest life of a particle          *)

\* frames per behaviour
ShrinkFrames == 140

\* the frame after which the layout changes the size of the canvas
ShrinkAt == 14

\* a canvas of capacity 50
ShrinkSizes == {[w |-> 400, h |-> 260]}

InitShrink == InitOf({"wave"}, ShrinkSizes, {16})

ContainerShrink == FramesRun = ShrinkAt /\ ContainerResize(1)

NextShrink ==
    \/ WaveSetup(MaxSetups) \/ WaveFrame(ShrinkFrames) \/ ContainerShrink

SpecShrink == InitShrink /\ [][NextShrink]_vars

----------------------------------------------------------------------------
(* Touching: whole touch gestures on a mounted canvas, taps and drags       *)

\* touch events per behaviour
TouchEvents == 3

InitTouch == InitOf({"wave", "shoal"}, {Client}, {16})

NextTouch ==
    \/ WaveSetup(MaxSetups) \/ WaveTouchStart(TouchEvents)
    \/ WaveTouchMove(TouchEvents) \/ WaveTouchEnd(TouchEvents)
    \/ ShoalSetup(MaxSetups) \/ ShoalTouchStart(TouchEvents)
    \/ ShoalTouchMove(TouchEvents) \/ ShoalTouchEnd(TouchEvents)

SpecTouch == InitTouch /\ [][NextTouch]_vars

----------------------------------------------------------------------------
(* Quiz: the quiz page under every input of its user                        *)

InitQuiz == InitOf({"wave"}, {Client}, {16})

NextQuiz ==
    \/ QuizPick \/ QuizNextButton \/ QuizPrevButton
    \/ QuizArrowRight \/ QuizArrowLeft \/ QuizSubmit \/ QuizReset

SpecQuiz == InitQuiz /\ [][NextQuiz]_vars

----------------------------------------------------------------------------
(* Loading: two hooks whose src changes while images load                   *)

InitLoader == InitOf({"wave"}, {Client}, {16})

NextLoader ==
    \/ HookEffect
    \/ \E src \in Srcs : AttemptLoads(src)
    \/ \E src \in Srcs : AttemptFails(src)
    \/ \E src \in Srcs : AttemptTimesOut(src)

SpecLoader == InitLoader /\ [][NextLoader]_vars

\* every attempt ends: the image loads, fails, or the timer of the attempt
\* fires
SpecLoaderFair ==
    SpecLoader /\ \A src \in Srcs : WF_vars(AttemptEnds(src))

----------------------------------------------------------------------------
(* Claims                                                                   *)

\* C1: in ShoalingCanvas the number of foam particles held at the end of a
\* tick never exceeds the capacity for the client width,
\* max(36, min(120, floor(w / 8))).
C1_ShoalParticlesWithinCapacity ==
    canvas = "shoal" => Len(particlesRef) <= ShoalMaxParticles(clientW)

\* C2: in WaveCanvas a tick that finds n particles spawns min(4, cap - n) of
\* them when n is below cap = max(40, min(110, floor(w / 8))) and none
\* otherwise, and ends with at most cap particles.
C2_WaveSpawnWithinCapacity ==
    [][(canvas = "wave" /\ passes' # passes) =>
        LET cap == WaveMaxParticles(clientW)
            n   == Len(particlesRef)
        IN  /\ obs'.spawned = (IF n < cap THEN Min(4, cap - n) ELSE 0)
            /\ Len(particlesRef') <= cap]_vars

\* a tick found the wave canvas close below its capacity and filled it
C2_Witness ==
    /\ canvas = "wave"
    /\ obs.spawned \in 1..3
    /\ Len(particlesRef) >= WaveMaxParticles(clientW) - 1

\* C3: the strength of a ripple never increases from one tick to the next,
\* and no ripple is still in the collection once 280 ticks have sampled it.
C3_RippleFadesWithin280Ticks ==
    [][/\ \A i \in DOMAIN ripplesRef, j \in DOMAIN ripplesRef' :
            ripplesRef[i].id = ripplesRef'[j].id
                => ripplesRef'[j].strength <= ripplesRef[i].strength
       /\ \A j \in DOMAIN ripplesRef' : ripplesRef'[j].ticks < 280]_vars

\* a ripple of the narrowest shoaling canvas, weaker than injected and still
\* there after 244 ticks
C3_Witness ==
    /\ canvas = "shoal"
    /\ \E i \in DOMAIN ripplesRef :
        ripplesRef[i].ticks >= 244 /\ ripplesRef[i].strength < 10000000

\* C4: after any touchmove the amplitude lies in [5, 120] in WaveCanvas and
\* in [6, 120] in ShoalingCanvas, whatever the amplitude before it and
\* whatever the drag.
C4_DragKeepsAmplitudeInRange ==
    [][/\ WaveTouchMove(DragEvents) => ampRef' \in 5000..120000
       /\ ShoalTouchMove(DragEvents) => ampRef' \in 6000..120000]_vars

\* the page passed an amplitude above the range and a drag has met the
\* lower limit
C4_Witness ==
    /\ canvas = "wave"
    /\ props.amplitude = 200000
    /\ ampRef = 5000

\* C5: the amplitude a tick uses to compute the wave is within [5, 120] in
\* WaveCanvas and within [6, 120] in ShoalingCanvas, also when the page
\* passes an amplitude outside that range.
C5_TickAmplitudeInRange ==
    /\ (canvas = "wave" /\ obs.by # 0) => obs.usedAmp \in 5000..120000
    /\ (canvas = "shoal" /\ obs.by # 0) => obs.usedAmp \in 6000..120000

\* C6: once a setup is torn down, its loop runs no further pass and requests
\* no further frame.
C6_TornDownLoopStops ==
    [][\A k \in 1..run :
        (k < run \/ ~live) =>
            /\ k \in DOMAIN passes' <=> k \in DOMAIN passes
            /\ k \in DOMAIN passes => passes'[k] = passes[k]
            /\ \A f \in rafQueue' \ rafQueue : f.run # k]_vars

\* the first setup was torn down after it had served a frame, and the second
\* has served one since
C6_Witness ==
    /\ run = 2
    /\ DOMAIN passes = {1, 2}
    /\ passes[1] >= 1
    /\ passes[2] >= 1
    /\ FramesRun = 2

\* C7: the registered listeners and observers are exactly those of the setup
\* that is live, and none when the last setup has been torn down.
C7_ListenersOfLiveSetupOnly ==
    listeners = IF ~live THEN {}
                ELSE IF canvas = "wave" THEN WaveListeners(run)
                ELSE IF canvas = "shoal" THEN ShoalListeners(run)
                ELSE TyphoonListeners(run)

\* the second setup has been torn down as well
C7_Witness ==
    /\ run = 2
    /\ ~live
    /\ listeners = {}

\* C9: when the client width or height of the canvas is zero, a tick does no
\* simulation or draw work (no phase or time advance, no ripple decay, no
\* particle spawned or moved, no trail sample) and the loop keeps running.
C9_ZeroSizeTickDoesNothing ==
    [][(passes' # passes /\ (clientW <= 0 \/ clientH <= 0)) =>
        /\ phaseRef' = phaseRef
        /\ timeRef' = timeRef
        /\ ripplesRef' = ripplesRef
        /\ particlesRef' = particlesRef
        /\ centersRef' = centersRef
        /\ lastTrailSample' = lastTrailSample
        /\ rafQueue' # {}]_vars

\* C10: the phase of WaveCanvas and the simulation time of ShoalingCanvas are
\* functions of the elapsed time and the speed only: without any event, every
\* display reaches, at an elapsed time the 16 ms display has a frame at, the
\* phase the 16 ms display has there (its first pass and one per 16 ms).
C10_PhaseFromElapsedTime ==
    (events = 0 /\ run = 1 /\ (now - PageAge) % 16 = 0) =>
        LET ticks == 1 + (now - PageAge) \div 16
        IN  /\ canvas = "wave" => phaseRef = ticks * 20 * speedRef
            /\ canvas = "shoal" => timeRef = ticks * ShoalTimeStep(speedRef)

\* C8: the trail of TyphoonCanvas holds at most 400 points at the end of
\* every tick, in the order they were recorded, and a center recorded when
\* it is full pushes out the oldest ones: the trail is always the most
\* recent (at most 400) recorded centers.
C8_TrailKeepsLatest400 ==
    [][/\ Len(centersRef') <= 400
       /\ (passes' # passes /\ obs'.pushed) =>
            LET q == centersRef \o <<obs'.center>>
            IN  centersRef' = SubSeq(q, Max(1, Len(q) - 399), Len(q))
       /\ (passes' # passes /\ ~obs'.pushed) => centersRef' = centersRef]_vars

\* the trail is full and its first centers have been pushed out
C8_Witness ==
    /\ Len(centersRef) = 400
    /\ 1 \in DOMAIN passes
    /\ passes[1] > 402
    /\ obs.pushed

\* C11: every tick of TyphoonCanvas draws round(bands) clamped to [1, 10]
\* spiral bands, and every value it derives from the wind is computed from
\* the configured wind clamped to [0, 1.6].
C11_BandsAndWindClamped ==
    [][(canvas = "typhoon" /\ passes' # passes) =>
        LET k == IF cyc.wind < 0 THEN 0 ELSE IF cyc.wind > 1600 THEN 1600 ELSE cyc.wind
            n == (cyc.bands + 5) \div 10
            d == obs'.cyclone
        IN  /\ d.bandCount = (IF n < 1 THEN 1 ELSE IF n > 10 THEN 10 ELSE n)
            /\ d.a = 3000 + 3 * k
            /\ d.baseAlpha = 80 + (18 * k) \div 100
            /\ d.lineBase = (IF k < 600 THEN 600 ELSE k)
            /\ d.lightness = (IF k > 1000 THEN 60 ELSE 65)
            /\ d.eyeR = 8000 + 3 * k
            /\ d.eyewallAlpha = 350 + (15 * k) \div 100]_vars

\* a tick drew 10 bands for a requested 15, with a wind of 2.5 used as 1.6
C11_Witness ==
    /\ canvas = "typhoon"
    /\ cyc.bands = 150
    /\ cyc.wind = 2500
    /\ obs.cyclone.bandCount = 10
    /\ obs.cyclone.a = 7800

\* C12: for travel >= 0 the center x of a tick at elapsed time t is
\* -120 + ((t * travel) mod (w + 240)) for the client width w: a function of
\* t, the current travel and w alone.
C12_CenterXFromElapsedTime ==
    [][(canvas = "typhoon" /\ passes' # passes /\ cyc.travel >= 0) =>
        obs'.center.x =
            -120000 + (((now' - startTimeRef) * cyc.travel) % ((clientW + 240) * 1000))]_vars

\* travel 80 after 10 s on a canvas 100 px wide: 800 mod 340 = 120 px past
\* the start of the span
C12_Witness ==
    /\ canvas = "typhoon"
    /\ obs.by # 0
    /\ cyc.travel = 80
    /\ clientW = 100
    /\ now - startTimeRef = 10000
    /\ obs.center.x = 0

\* C13: for every elapsed time and every travel speed, a negative one
\* included, the center x of a tick lies within the wrap span
\* [-120, w + 120) of the client width w.
C13_CenterWithinWrapSpan ==
    (canvas = "typhoon" /\ obs.by # 0) =>
        /\ -120000 <= obs.center.x
        /\ obs.center.x < (obs.w + 120) * 1000

\* C14: every sample of the water surface of ShoalingCanvas, in every tick,
\* has y <= seabedY(x) - 2, for any amplitude, ripples and pointer.
C14_SurfaceAboveSeabed ==
    (canvas = "shoal" /\ obs.by # 0) =>
        \A i \in DOMAIN obs.pts :
            obs.pts[i] <= seabedY(2 * (i - 1), obs.w, obs.h) - 2000

\* with a ripple and the pointer over the canvas, the surface of the tick
\* is held 2 px above the seabed at one sample and runs free at another
C14_Witness ==
    /\ canvas = "shoal"
    /\ obs.by # 0
    /\ ripplesRef # <<>>
    /\ pointerRef.inside
    /\ \E i \in DOMAIN obs.pts :
            obs.pts[i] = seabedY(2 * (i - 1), obs.w, obs.h) - 2000
    /\ \E i \in DOMAIN obs.pts :
            obs.pts[i] < seabedY(2 * (i - 1), obs.w, obs.h) - 2000

\* C15: changing one option of a wave canvas leaves the effective value of
\* every other option as it was; in particular a change of the speed or of
\* the wavelength option leaves the current amplitude, also one set by a
\* touch drag, unchanged.
C15_OptionChangeKeepsOthers ==
    [][(canvas = "wave" /\ props' # props) =>
          /\ (props'.amplitude = props.amplitude => ampRef' = ampRef)
          /\ (props'.speed = props.speed => speedRef' = speedRef)
          /\ (props'.wavelength = props.wavelength => wlRef' = wlRef)]_vars

\* C16: an animation instance never has more than one pending frame request;
\* a setup leaves exactly one, and each frame callback that fires runs
\* exactly one pass and leaves exactly one request, a new one, across
\* setups, ticks, re-setups and teardowns.
C16_OnePendingFrameOnePass ==
    [][/\ Cardinality(rafQueue) <= 1
       /\ Cardinality(rafQueue') <= 1
       /\ run' # run => Cardinality(rafQueue') = 1
       /\ now' # now =>
            /\ Cardinality(rafQueue') = 1
            /\ rafQueue' \cap rafQueue = {}
            /\ \E k \in DOMAIN passes' :
                 /\ passes'[k] = (IF k \in DOMAIN passes THEN passes[k] ELSE 0) + 1
                 /\ \A j \in DOMAIN passes' \ {k} :
                        j \in DOMAIN passes /\ passes'[j] = passes[j]]_vars

\* the second setup, after a teardown, has run two passes of its own and
\* its one request is pending
C16_Witness ==
    /\ run = 2
    /\ live
    /\ Cardinality(rafQueue) = 1
    /\ \A f \in rafQueue : f.run = 2 /\ f.id = rafRef
    /\ 2 \in DOMAIN passes
    /\ passes[2] >= 2

\* C17: in WaveCanvas and ShoalingCanvas every tick draws on a backing
\* surface measured from the current container size, canvas.width =
\* floor(clientWidth * devicePixelRatio) and canvas.height =
\* floor(clientHeight * devicePixelRatio), whether the window was resized
\* or only the container.
C17_SurfaceMeasuredBeforeTick ==
    [][(canvas \in {"wave", "shoal"} /\ passes' # passes) =>
          surface' = [w |-> (clientW' * dpr') \div 1000,
                      h |-> (clientH' * dpr') \div 1000]]_vars

\* C18: after each update the alpha of a foam particle is
\* A0 * (1 - age / maxAge), A0 = 0.8 in WaveCanvas and 0.9 in ShoalingCanvas
\* (here to the 1/1000 the model keeps), and it is not above the alpha the
\* particle had after the update of the tick before; a particle whose age
\* has reached maxAge has alpha <= 0 and is removed without being drawn,
\* and every drawn particle has its alpha in (0, A0].
C18_AlphaFadesLinearly ==
    (canvas \in {"wave", "shoal"} /\ obs.by # 0) =>
        LET A0 == IF canvas = "wave" THEN 800 ELSE 900
        IN  \A i \in DOMAIN obs.fade :
                LET e == obs.fade[i]
                    left == A0 * (e.maxLife - e.life * 1000)
                IN  /\ left <= e.alpha * e.maxLife
                    /\ e.alpha * e.maxLife < left + e.maxLife
                    /\ e.life > 1 => e.alpha <= e.was
                    /\ e.life * 1000 >= e.maxLife => (e.alpha <= 0 /\ ~e.drawn)
                    /\ e.drawn => (0 < e.alpha /\ e.alpha <= A0)

\* a tick of a shoaling canvas in which one particle has reached its maxAge
\* and is removed, and an older particle is drawn, fainter than before
C18_Witness ==
    /\ canvas = "shoal"
    /\ obs.by # 0
    /\ \E i \in DOMAIN obs.fade :
            /\ obs.fade[i].life * 1000 >= obs.fade[i].maxLife
            /\ ~obs.fade[i].drawn
    /\ \E i \in DOMAIN obs.fade :
            /\ obs.fade[i].life > 1
            /\ obs.fade[i].drawn
            /\ obs.fade[i].alpha < obs.fade[i].was

\* C19: a tick multiplies the strength of every live ripple by its decay
\* rate exactly once (and only then prunes the ripple if it has fallen below
\* the threshold), so that all samples of the tick see one strength.
C19_RippleDecaysOncePerTick ==
    [][(canvas \in {"wave", "shoal"} /\ passes' # passes) =>
          LET min == IF canvas = "wave" THEN WaveRippleMin ELSE ShoalRippleMin
          IN  \A i \in DOMAIN ripplesRef :
                  LET r    == ripplesRef[i]
                      once == Decayed(r.strength, r.decay)
                  IN  IF once < min
                      THEN \A j \in DOMAIN ripplesRef' : ripplesRef'[j].id # r.id
                      ELSE \E j \in DOMAIN ripplesRef' :
                              /\ ripplesRef'[j].id = r.id
                              /\ ripplesRef'[j].strength = once]_vars

\* C20: at the end of every tick every live foam particle has x in
\* [-m, w + m] and y in [-m, h + m], m = 5 in WaveCanvas and 6 in
\* ShoalingCanvas, and an age below its maxAge, wherever the pointer is.
C20_ParticlesWithinBounds ==
    (canvas \in {"wave", "shoal"} /\ obs.by # 0) =>
        LET m == IF canvas = "wave" THEN 5 ELSE 6
        IN  \A i \in DOMAIN particlesRef :
                LET p == particlesRef[i]
                IN  /\ -m * 1000 <= p.x /\ p.x <= (obs.w + m) * 1000
                    /\ -m * 1000 <= p.y /\ p.y <= (obs.h + m) * 1000
                    /\ p.life * 1000 < p.maxLife

\* C21: TyphoonCanvas appends a center to the trail only in a tick that
\* comes more than 40 ms after the previous sampling attempt and whose center
\* is more than 2 px from the last recorded point (or finds the trail
\* empty); any two consecutive points of the trail are more than 2 px apart
\* and were recorded more than 40 ms apart.
C21_TrailThrottled ==
    [][(canvas = "typhoon") =>
          /\ (centersRef' # centersRef /\ centersRef' # <<>>) =>
                LET c == centersRef'[Len(centersRef')]
                IN  /\ passes' # passes
                    /\ c.at = now'
                    /\ now' - lastTrailSample > 40
                    /\ \/ centersRef = <<>>
                       \/ LET l == centersRef[Len(centersRef)]
                          IN  \/ Abs(l.x - c.x) > 2000
                              \/ Abs(l.y - c.y) > 2000
                              \/ (l.x - c.x) * (l.x - c.x) + (l.y - c.y) * (l.y - c.y)
                                    > 4000000
          /\ \A i \in 1..(Len(centersRef') - 1) :
                LET a == centersRef'[i]
                    b == centersRef'[i + 1]
                IN  /\ b.at - a.at > 40
                    /\ \/ Abs(a.x - b.x) > 2000
                       \/ Abs(a.y - b.y) > 2000
                       \/ (a.x - b.x) * (a.x - b.x) + (a.y - b.y) * (a.y - b.y)
                             > 4000000]_vars

\* a slow cyclone: the trail has two points, and since the second was
\* recorded a tick has passed the throttle without recording its center,
\* which was within 2 px of that point
C21_Witness ==
    /\ canvas = "typhoon"
    /\ Len(centersRef) >= 2
    /\ obs.by # 0
    /\ ~obs.pushed
    /\ lastTrailSample = now
    /\ lastTrailSample > centersRef[Len(centersRef)].at

\* C22: a click on a wave canvas appends exactly one ripple, with strength
\* 18 (WaveCanvas) or 10 (ShoalingCanvas), radius 120 and decay 0.985, and
\* leaves the ripples that were there, the particles, the amplitude and the
\* pointer as they were; a ripple leaves the collection only in a tick, and
\* a tick adds none and only weakens those it keeps.
C22_ClickAppendsOneRipple ==
    [][(canvas \in {"wave", "shoal"}) =>
          /\ (passes' = passes /\ ripplesRef' # ripplesRef) =>
                LET r == ripplesRef'[Len(ripplesRef')]
                IN  /\ ripplesRef' = Append(ripplesRef, r)
                    /\ r.strength = (IF canvas = "wave" THEN 18000000 ELSE 10000000)
                    /\ r.radius = 120
                    /\ r.decay = 985
                    /\ \A i \in DOMAIN ripplesRef : ripplesRef[i].id # r.id
                    /\ particlesRef' = particlesRef
                    /\ ampRef' = ampRef
                    /\ pointerRef' = pointerRef
          /\ (passes' # passes) =>
                \A j \in DOMAIN ripplesRef' :
                    \E i \in DOMAIN ripplesRef :
                        /\ ripplesRef[i].id = ripplesRef'[j].id
                        /\ ripplesRef[i].x = ripplesRef'[j].x
                        /\ ripplesRef'[j].strength < ripplesRef[i].strength]_vars

\* a second click: a ripple of full strength beside one that ticks have
\* weakened
C22_Witness ==
    /\ canvas \in {"wave", "shoal"}
    /\ Len(ripplesRef) = 2
    /\ ripplesRef[1].ticks >= 2
    /\ ripplesRef[1].strength < ripplesRef[2].strength
    /\ ripplesRef[2].ticks = 0
    /\ ripplesRef[1].x # ripplesRef[2].x

\* C23: TyphoonCanvas empties the trail and restarts the origin of the
\* elapsed time whenever the size of the canvas changes (the step in which
\* the backing surface is measured anew), as well as on mount.
C23_ResizeResetsTrail ==
    [][(canvas = "typhoon" /\ (surface' # surface \/ run' # run)) =>
          (centersRef' = <<>> /\ startTimeRef' = now')]_vars

\* C24: once the quiz is submitted, no click, Enter or Space on an option,
\* no ArrowLeft or ArrowRight and no Prev or Next button changes a recorded
\* answer or the current question, until reset; reset makes every question
\* unanswered, the current index 0 and submitted false.
C24_SubmittedQuizLocked ==
    [][submitted =>
          \/ (submitted' /\ answers' = answers /\ current' = current)
          \/ /\ quizInput' = "reset"
             /\ ~submitted'
             /\ current' = 0
             /\ \A i \in 0..(NQuestions - 1) : answers'[i] = -1]_vars

\* ArrowRight was pressed on a submitted quiz that shows its first question,
\* answered with its last option
C24_Witness ==
    /\ submitted
    /\ quizInput = "ArrowRight"
    /\ current = 0
    /\ answers[0] = NOptions - 1

\* C28: before submission the current index stays within [0, n - 1] and
\* moves forward from a question only when that question has an answer,
\* by the Next button as well as by ArrowRight.
C28_ForwardOnlyWhenAnswered ==
    [][/\ 0 <= current' /\ current' <= NQuestions - 1
       /\ (~submitted /\ current' > current) => answers[current] # -1]_vars

C26_CountWithinCapacityAfterShrink ==
    (canvas = "wave" /\ obs.by # 0 /\ obs.w = clientW /\ obs.steady >= 119)
        => Len(particlesRef) <= Max(40, Min(110, clientW \div 8))

\* a canvas that was narrowed from capacity 50 to capacity 40 has run 120
\* ticks at its new width and holds particles
C26_Witness ==
    /\ canvas = "wave" /\ events = 1
    /\ obs.w = 100 /\ clientW = 100
    /\ obs.steady >= 119
    /\ Len(particlesRef) \in 1..40

\* C27: a touch gesture injects a ripple only when it is a tap: the
\* touchend that ends a drag (a touchstart followed by touchmoves that
\* changed the amplitude) leaves the ripple collection unchanged.
C27_DragInjectsNoRipple ==
    [][(gesture = "drag" /\ gesture' = "idle")
        => (ripplesRef' = ripplesRef /\ injected' = injected)]_vars

\* C29: every call of load eventually has its own onLoad or onError invoked
\* exactly once, also a call made while a load of the same src is in flight.
C29_EveryCallSettles ==
    \A i \in 1..MaxCalls :
        (i \in DOMAIN calls)
            ~> (i \in DOMAIN calls /\ calls[i].onLoad + calls[i].onError = 1)

\* C30: once the call a hook made for its current src has had its callback,
\* the status and the image of the hook are those of that src.
C30_LatestSrcWins ==
    \A h \in Hooks :
        LET mine == {i \in DOMAIN calls : calls[i].hook = h}
        IN  mine # {} =>
            LET last == CHOOSE i \in mine : \A j \in mine : j <= i
            IN  /\ (calls[last].src = hooks[h].src /\ calls[last].onLoad = 1)
                    => (hooks[h].status = "loaded" /\ hooks[h].img = hooks[h].src)
                /\ (calls[last].src = hooks[h].src /\ calls[last].onError = 1)
                    => hooks[h].status = "error"

====
